---- MODULE Spec2Model ----
(***************************************************************************)
(* Model of the Tokko lead collection engine: scrapeLeadsUntilDate and the *)
(* helpers it drives (src/src/scraper/leads.js), the scrapeLeads wrapper   *)
(* (scraper/index.js) and the POST /api/leads/scrape route.                *)
(*                                                                         *)
(* The page is the environment: the rendered rows, the outcome of every    *)
(* enrichment, the result of every scroll and the moment at which the      *)
(* session is invalidated are nondeterministic.  Local time is taken to be *)
(* UTC, so that a cutoff given as YYYY-MM-DD is a local midnight.          *)
(***************************************************************************)
EXTENDS Integers, Sequences, FiniteSets, TLC

(***************************************************************************)
(* Bounds of the model                                                     *)
(***************************************************************************)
MaxRows == 2            \* rows the page ever renders
MaxLeadsOpt == 2        \* largest maxLeads option tried
ScrollsOver == 2        \* largest maxScrolls option tried is StallLimit + ScrollsOver
MaxTokens == 3          \* phone tokens in a contact panel
MaxEnriched == 2        \* leads enriched in one pass
MaxRuns == 2            \* requests the server answers

(***************************************************************************)
(* Program constants                                                       *)
(***************************************************************************)
StallLimit == 5         \* noNewLeadsCount < 5
DefaultMaxScrolls == 200  \* maxScrolls = 200
DefaultMaxLeads == 10000  \* maxLeads || 10000

NULL == "<null>"        \* null / undefined
EMPTY == ""             \* the empty string
NoDate == -1            \* parseDate's null

(***************************************************************************)
(* Strings: toLowerCase, by table over the strings the model uses          *)
(***************************************************************************)
LowerTable ==
  [x \in {"Juan", "JUAN", "Eva", "Colombres 148", "Lavalle 300"} |->
     CASE x = "Juan" -> "juan"
       [] x = "JUAN" -> "juan"
       [] x = "Eva" -> "eva"
       [] x = "Colombres 148" -> "colombres 148"
       [] x = "Lavalle 300" -> "lavalle 300"]

toLowerCase(s) == IF s \in DOMAIN LowerTable THEN LowerTable[s] ELSE s

\* a property of an object, undefined when the object does not have it
Field(obj, f) == IF f \in DOMAIN obj THEN obj[f] ELSE NULL

\* JavaScript's (x || d) on a string or null
OrElse(x, d) == IF x = NULL \/ x = EMPTY THEN d ELSE x

(***************************************************************************)
(* Dates.  An instant is a number of minutes since 2020-01-01 00:00.       *)
(***************************************************************************)
IsLeap(y) == (y % 4 = 0 /\ y % 100 # 0) \/ y % 400 = 0

DaysInMonth(y, m) ==
  IF m = 2 THEN (IF IsLeap(y) THEN 29 ELSE 28)
  ELSE IF m \in {4, 6, 9, 11} THEN 30 ELSE 31

RECURSIVE DaysBeforeYear(_)
DaysBeforeYear(y) ==
  IF y <= 2020 THEN 0
  ELSE DaysBeforeYear(y - 1) + (IF IsLeap(y - 1) THEN 366 ELSE 365)

RECURSIVE DaysBeforeMonth(_, _)
DaysBeforeMonth(y, m) ==
  IF m <= 1 THEN 0 ELSE DaysBeforeMonth(y, m - 1) + DaysInMonth(y, m - 1)

\* new Date(year, monthIndex + 1, day, hours, minutes), local time
Instant(y, m, d, h, mi) ==
  ((DaysBeforeYear(y) + DaysBeforeMonth(y, m) + (d - 1)) * 24 + h) * 60 + mi

\* the digits of the display strings of the model: <<DD, MM, YYYY, HH, MM>>
DateDigits ==
  [x \in {"26/11/2025 08:15", "01/01/2020 09:00", "13/01/2024 00:00"} |->
     CASE x = "26/11/2025 08:15" -> <<26, 11, 2025, 8, 15>>
       [] x = "01/01/2020 09:00" -> <<1, 1, 2020, 9, 0>>
       [] x = "13/01/2024 00:00" -> <<13, 1, 2024, 0, 0>>]

\* new Date("a/b/yyyy hh:mm") of the engine, on the digits <<a, b, yyyy, hh, mm>>:
\* the string is read month first and is invalid when a is not a month
GenericDigits(f) ==
  IF f[1] \in 1..12 /\ f[2] \in 1..31
  THEN Instant(f[3], f[1], f[2], f[4], f[5])
  ELSE NoDate

\* parseDate on a string DD/MM/YYYY HH:MM given by its digits: no relative
\* rule matches, then new Date(dateStr), then the DD/MM/YYYY pattern
parseDigits(f) ==
  IF GenericDigits(f) # NoDate THEN GenericDigits(f)
  ELSE Instant(f[3], f[2], f[1], 0, 0)

\* new Date(dateStr) of the engine on a display string of the model
GenericDate(dateStr) ==
  IF dateStr \notin DOMAIN DateDigits THEN NoDate
  ELSE GenericDigits(DateDigits[dateStr])

parseDate(dateStr) ==
  IF dateStr = NULL \/ dateStr = EMPTY THEN NoDate
  ELSE IF GenericDate(dateStr) # NoDate THEN GenericDate(dateStr)
  ELSE IF dateStr \in DOMAIN DateDigits
       THEN parseDigits(DateDigits[dateStr])
       ELSE NoDate

(***************************************************************************)
(* Rows of the page                                                        *)
(***************************************************************************)
STATUS_SECTION_HEADERS ==
  [s \in {"para_reasignacion", "sin_seguimiento", "pendiente_contactar",
          "esperando_respuesta", "evolucionando", "tomar_accion", "congelado"} |->
     CASE s = "para_reasignacion" -> "Para reasignacion"
       [] s = "sin_seguimiento" -> "Sin Seguimiento"
       [] s = "pendiente_contactar" -> "Pendiente contactar"
       [] s = "esperando_respuesta" -> "Esperando respuesta"
       [] s = "evolucionando" -> "Evolucionando"
       [] s = "tomar_accion" -> "Tomar Accion"
       [] s = "congelado" -> "Congelado"]

HeaderLabels == {STATUS_SECTION_HEADERS[s] : s \in DOMAIN STATUS_SECTION_HEADERS}

HeaderRow(label) ==
  [kind |-> "header", label |-> label, name |-> NULL, agent |-> NULL,
   address |-> NULL, ts |-> NULL]

DataRow(name, agent, address, ts) ==
  [kind |-> "data", label |-> NULL, name |-> name, agent |-> agent,
   address |-> address, ts |-> ts]

\* the rows the page may render
RowSet ==
  { HeaderRow("Pendiente contactar"),
    HeaderRow("Esperando respuesta"),
    DataRow("Juan", "Ana", "Colombres 148", "26/11/2025 08:15"),
    DataRow("JUAN", "Ana", "Lavalle 300", "01/01/2020 09:00"),
    DataRow("Juan", "Ana", EMPTY, NULL),
    DataRow("Eva", "Ana", "Colombres 148", "13/01/2024 00:00") }

\* a page with a recent and an old row
LiveRowSet ==
  { DataRow("Juan", "Ana", "Colombres 148", "26/11/2025 08:15"),
    DataRow("JUAN", "Ana", "Lavalle 300", "01/01/2020 09:00") }

\* text.includes(header) && /\(\d+\)/.test(text)
isSectionHeader(row) == row.kind = "header" /\ row.label \in HeaderLabels

\* the null result of parseLeadFromText
NoLead ==
  [contactName |-> NULL, propertyAddress |-> NULL, lastUpdated |-> NULL,
   status |-> NULL, _agentName |-> NULL]

parseLeadFromText(row) ==
  LET lastUpdated == row.ts
      contactMatch == row.name # NULL /\ row.name # EMPTY /\ row.agent # NULL
      propertyAddress ==
        IF contactMatch /\ lastUpdated # NULL /\ row.address # NULL
        THEN row.address ELSE NULL
  IN IF ~contactMatch THEN NoLead
     ELSE [contactName |-> row.name,
           propertyAddress |-> propertyAddress,
           lastUpdated |-> lastUpdated,
           status |-> NULL,
           _agentName |-> row.agent]

getLeadKey(lead) ==
  <<toLowerCase(OrElse(Field(lead, "contactName"), EMPTY)),
    toLowerCase(OrElse(Field(lead, "propertyName"), EMPTY)),
    toLowerCase(OrElse(Field(lead, "vigencia"), EMPTY))>>


(***************************************************************************)
(* scrapeVisibleLeads: the structural scan of the rendered rows            *)
(***************************************************************************)
targetHeaderOf(targetStatus) ==
  IF targetStatus \in DOMAIN STATUS_SECTION_HEADERS
  THEN STATUS_SECTION_HEADERS[targetStatus] ELSE NULL

\* the for loop over allRows; inTarget is inTargetSection
RECURSIVE ScanRows(_, _, _, _, _)
ScanRows(rows, i, inTarget, targetStatus, leads) ==
  IF i > Len(rows) THEN leads
  ELSE LET row == rows[i]
           targetSectionHeader == targetHeaderOf(targetStatus)
       IN IF isSectionHeader(row)
          THEN IF targetSectionHeader # NULL /\ row.label = targetSectionHeader
               THEN ScanRows(rows, i + 1, TRUE, targetStatus, leads)
               ELSE IF targetSectionHeader # NULL /\ inTarget /\ targetStatus # "all"
                    THEN leads
                    ELSE ScanRows(rows, i + 1, inTarget, targetStatus, leads)
          ELSE IF ~inTarget
               THEN ScanRows(rows, i + 1, inTarget, targetStatus, leads)
               ELSE LET lead == parseLeadFromText(row)
                    IN IF lead # NoLead /\ OrElse(lead.contactName, NULL) # NULL
                       THEN ScanRows(rows, i + 1, inTarget, targetStatus,
                                     Append(leads, lead))
                       ELSE ScanRows(rows, i + 1, inTarget, targetStatus, leads)

StructuralLeads(rows, targetStatus) ==
  ScanRows(rows, 1, targetStatus = "all" \/ targetStatus = NULL, targetStatus, <<>>)

\* extractLeadsFromHTML when the resolver answers: every lead row of the
\* page, with the label of the header above it
RECURSIVE LLMRows(_, _, _, _)
LLMRows(rows, i, label, leads) ==
  IF i > Len(rows) THEN leads
  ELSE LET row == rows[i]
       IN IF row.kind = "header"
          THEN LLMRows(rows, i + 1, row.label, leads)
          ELSE IF row.name = NULL
               THEN LLMRows(rows, i + 1, label, leads)
               ELSE LLMRows(rows, i + 1, label,
                      Append(leads, [contactName |-> row.name,
                                     agentName |-> row.agent,
                                     propertyAddress |-> row.address,
                                     lastUpdated |-> row.ts,
                                     status |-> label]))

\* the answers of the resolver: nothing (also on any failure), or the rows
extractLeadsFromHTML(rows) == { <<>>, LLMRows(rows, 1, NULL, <<>>) }

\* a catch that swallows every error, the session's included
scrapeVisibleCatchAll(err) == "empty"

\* the catch at the end of scrapeVisibleLeads: "rethrow" or "empty"
scrapeVisibleCatch(err) == IF err = "session" THEN "rethrow" ELSE "empty"

\* scrapeVisibleLeads when no error is raised; llm is the resolver's answer
scrapeVisibleLeads(rows, targetStatus, llm) ==
  LET leads == StructuralLeads(rows, targetStatus)
  IN IF Len(leads) = 0 /\ Len(llm) > 0 THEN llm ELSE leads

(***************************************************************************)
(* The Dedup Store: a Map, kept as the sequence of its entries             *)
(***************************************************************************)
Has(store, key) == \E i \in 1..Len(store) : store[i].key = key

IndexOf(store, key) == CHOOSE i \in 1..Len(store) : store[i].key = key

Get(store, key) == store[IndexOf(store, key)].lead

\* the store is started again with every write
SetAlone(store, key, lead) == <<[key |-> key, lead |-> lead]>>

\* a new key goes in front of the others
SetInFront(store, key, lead) ==
  IF Has(store, key)
  THEN [store EXCEPT ![IndexOf(store, key)] = [key |-> key, lead |-> lead]]
  ELSE <<[key |-> key, lead |-> lead]>> \o store

\* Map.set: a present key keeps its place and takes the new value
Set(store, key, lead) ==
  IF Has(store, key)
  THEN [store EXCEPT ![IndexOf(store, key)] = [key |-> key, lead |-> lead]]
  ELSE Append(store, [key |-> key, lead |-> lead])

Values(store) == [i \in 1..Len(store) |-> store[i].lead]

(***************************************************************************)
(* The date filter of a main pass (the first for loop of the while body)   *)
(***************************************************************************)
leadDateOf(lead) ==
  parseDate(OrElse(Field(lead, "vigencia"), Field(lead, "lastUpdated")))

\* the has() test left out: a known key is processed again
SkipKnownNever(store, key) == FALSE

\* if (allLeads.has(key)) continue
SkipKnown(store, key) == Has(store, key)

\* the comparison with the cutoff turned round
OlderThanTargetReversed(leadDate, target) == leadDate # NoDate /\ leadDate > target

\* leadDate && leadDate < targetDate
OlderThanTarget(leadDate, target) == leadDate # NoDate /\ leadDate < target

RECURSIVE FilterByDate(_, _, _, _, _)
FilterByDate(visible, i, store, target, acc) ==
  IF i > Len(visible) THEN [toProcess |-> acc, reached |-> FALSE]
  ELSE LET lead == visible[i]
           key == getLeadKey(lead)
           leadDate == leadDateOf(lead)
       IN IF SkipKnown(store, key)
          THEN FilterByDate(visible, i + 1, store, target, acc)
          ELSE IF OlderThanTarget(leadDate, target)
               THEN [toProcess |-> acc, reached |-> TRUE]
               ELSE FilterByDate(visible, i + 1, store, target,
                      Append(acc, [lead |-> lead, key |-> key, leadDate |-> leadDate]))

(***************************************************************************)
(* Enrichment.  What the page shows is the environment's choice.           *)
(***************************************************************************)
\* what activating the property link may lead to
PropertyOutcomes == {"absent", "nomodal", "modal"}

NoContact == [email |-> NULL, phone |-> NULL, cellPhone |-> NULL]

\* what the contact popover may show
ContactOutcomes ==
  { NoContact,
    [email |-> "juan@mail.com", phone |-> "+541112345678",
     cellPhone |-> "+5491112345678"] }

\* lead.propertyAddress?.replace(/\s*\+\s*$/, '').trim() is a usable address
validAddress(lead) ==
  LET a == Field(lead, "propertyAddress")
  IN a # NULL /\ a # EMPTY /\ a # "+"

\* {...lead, propertyId, propertyAgent}
withProperty(lead, propertyId, propertyAgent) ==
  [f \in DOMAIN lead \cup {"propertyId", "propertyAgent"} |->
     IF f = "propertyId" THEN propertyId
     ELSE IF f = "propertyAgent" THEN propertyAgent
     ELSE lead[f]]

\* extractPropertyDetails when the session is alive
extractPropertyDetails(lead, outcome) ==
  IF ~validAddress(lead) \/ outcome = "absent" THEN lead
  ELSE IF outcome = "modal"
       THEN withProperty(lead, "AAP7427642", "Emiliano Grieve")
       ELSE withProperty(lead, NULL, Field(lead, "_agentName"))

\* extractContactDetails when the session is alive
extractContactDetails(lead, outcome) ==
  IF OrElse(Field(lead, "contactName"), NULL) = NULL
  THEN NoContact
  ELSE outcome

\* the structured lead of a main pass
structuredLead(lead, propertyId, propertyAgent, contactInfo) ==
  [name |-> OrElse(Field(lead, "contactName"), NULL),
   email |-> contactInfo.email,
   phone |-> contactInfo.phone,
   cellPhone |-> contactInfo.cellPhone,
   agent |-> OrElse(propertyAgent, OrElse(Field(lead, "_agentName"), NULL)),
   propertyId |-> propertyId,
   address |-> OrElse(Field(lead, "propertyAddress"), NULL),
   lastUpdated |-> OrElse(Field(lead, "lastUpdated"), NULL)]

\* the structured lead of the end-of-scroll pass
finalLead(lead) ==
  structuredLead(lead, NULL, NULL, NoContact)

\* the date test of the end-of-scroll pass left out
KeptAtEndAlways(leadDate, target) == TRUE

\* !leadDate || leadDate >= targetDate
KeptAtEnd(leadDate, target) == leadDate = NoDate \/ leadDate >= target

\* the for loop over finalLeads
RECURSIVE MergeFinal(_, _, _, _)
MergeFinal(final, i, store, target) ==
  IF i > Len(final) THEN store
  ELSE LET lead == final[i]
           key == getLeadKey(lead)
       IN IF ~SkipKnown(store, key) /\ KeptAtEnd(leadDateOf(lead), target)
          THEN MergeFinal(final, i + 1, Set(store, key, finalLead(lead)), target)
          ELSE MergeFinal(final, i + 1, store, target)

\* the while loop without its scroll and stall ceilings
LoopCondNoCeilings(scrolls, size, stalls, reached, maxS, maxL) ==
  size < maxL /\ ~reached

\* the loop goes on to scroll after every pass
neverBreak(reached) == FALSE

\* if (reachedTargetDate) break
breakAfterPass(reached) == reached

\* the counter goes up whatever the pass added
countEveryPass(newLeadsFound, count) == count + 1

\* if (newLeadsFound === 0) noNewLeadsCount++; else noNewLeadsCount = 0
countStall(newLeadsFound, count) == IF newLeadsFound = 0 THEN count + 1 ELSE 0

\* the while test with the test of scrollCount left out
LoopCondNoScrollCeiling(scrolls, size, stalls, reached, maxS, maxL) ==
  size < maxL /\ stalls < StallLimit /\ ~reached

\* the condition of the while loop
LoopCond(scrolls, size, stalls, reached, maxS, maxL) ==
  scrolls < maxS /\ size < maxL /\ stalls < StallLimit /\ ~reached

\* the end is met only at the maximum offset itself
EndOfScrollExact(newScroll, maxScroll) == newScroll >= maxScroll

\* scrollResult.newScroll >= scrollResult.maxScroll * 0.99
EndOfScroll(newScroll, maxScroll) == newScroll * 100 >= maxScroll * 99

\* <<newScroll, maxScroll>> a scroll may report
ScrollOutcomes == { <<0, 0>>, <<0, 100>>, <<98, 100>>, <<99, 100>>, <<100, 100>> }

(***************************************************************************)
(* State                                                                   *)
(***************************************************************************)
VARIABLES
  status, targetDate, maxScrolls, maxLeads, extractDetails,  \* the options
  pageRows,            \* the rows the page holds and may come to render
  rendered,            \* the rows of the page, in rendered order
  closed,              \* the page is on /not_connected
  pc,                  \* where the run stands
  allLeads,            \* the Dedup Store
  scrollCount, noNewLeadsCount, reachedTargetDate, previousCount,
  visibleLeads,        \* what the last scrapeVisibleLeads returned
  usedFallback,        \* the last scrapeVisibleLeads returned the resolver's leads
  leadsToProcess, idx, \* the accepted rows of the pass, and the next one
  error,               \* the error that escaped: "none", "session", "generic"
  exitPath,            \* how the loop was left: "none", "while", "cutoff", "end"
  leadsArray,          \* what scrapeLeadsUntilDate returned
  result,              \* what scrapeLeads returned
  response,            \* what the route answered
  fnArg, fnRet,        \* the argument and the result of a function applied on its own
  request,             \* the body of the POST /api/leads/scrape being served
  route,               \* the route file that serves it: "current" or "legacy"
  logins,              \* login sequences performed since the server started
  runs,                \* requests answered since the server started
  savedCookies,        \* saveSession has returned the cookies of a run
  browser,             \* the browser of the run: NULL, "open", "unheld", "closed"
  launched,            \* browsers launched by createBrowser so far
  pages,               \* overlapping runs: the rows each page has rendered
  active,              \* overlapping runs: the locals of each call of scrapeLeads
  scrollsDone,         \* calls of scrollContainer that returned in this run
  scrollResult,        \* <<newScroll, maxScroll>> of the scroll of this iteration
  ui,                  \* enrichment: the overlays the page shows
  enrich,              \* enrichment: where the enrichment of a lead stands
  filters              \* filter setup: what was done to the branch filter and the toggle

options == <<status, targetDate, maxScrolls, maxLeads, extractDetails, pageRows>>

vars == <<status, targetDate, maxScrolls, maxLeads, extractDetails, pageRows, rendered,
          closed, pc, allLeads, scrollCount, noNewLeadsCount, reachedTargetDate,
          previousCount, visibleLeads, usedFallback, leadsToProcess, idx, error,
          exitPath, leadsArray, result, response, fnArg, fnRet,
          request, route, logins, runs, savedCookies, browser, launched, pages, active,
          scrollsDone, scrollResult, ui, enrich, filters>>

\* what no step of scrapeLeadsUntilDate touches
outside == <<fnArg, fnRet, request, route, logins, runs>>

\* the state of overlapping calls of scrapeLeads
overlap == <<launched, pages, active>>

\* the state of the enrichment followed click by click
enrichment == <<ui, enrich>>

\* no counter of a run goes beyond the largest maxScrolls option
CounterCap == StallLimit + ScrollsOver + 1

\* the rows of the sequence q
Range(q) == { q[i] : i \in 1..Len(q) }

\* the sequences of at most n rows of S, each row at most once
RECURSIVE SeqsUpTo(_, _)
SeqsUpTo(S, n) ==
  IF n = 0 THEN { <<>> }
  ELSE LET shorter == SeqsUpTo(S, n - 1)
       IN shorter \cup UNION { { Append(q, x) : x \in S \ Range(q) } : q \in shorter }

NoResult == [success |-> NULL]
NoRequest == [body |-> NULL]
NoResponse == [status |-> 0]

\* no scroll has returned in this iteration
NoScroll == <<-1, -1>>

\* the filter setup before its first step: calls of applyAllBranchesFilter and
\* of enableReassignmentStatesToggle, and how each ended
NoFilters == [branchCalls |-> 0, branches |-> "pending", toggleCalls |-> 0,
              toggle |-> "untouched"]

\* a page showing neither the property modal nor a contact popover
NoOverlay == [modal |-> FALSE, popover |-> NULL]

\* the locals of extractPropertyDetails and extractContactDetails before the
\* first lead: at is the step to come, activated and escaped tell whether the
\* property link has been clicked and Escape pressed for the current lead
NoEnrichment ==
  [at |-> "property", activated |-> FALSE, escaped |-> FALSE, interacted |-> FALSE,
   outcome |-> "absent", leadWithProperty |-> NoLead, opened |-> FALSE,
   contactInfo |-> NoContact]

\* the requests that may be served at the same time
Runs == 1..MaxRuns

\* a call of scrapeLeads that has not created its browser
NoRun ==
  [pc |-> "launch", page |-> 0, allLeads |-> <<>>, scrollCount |-> 0, result |-> NoResult]

SessionClosedMessage == "Sesion cerrada inesperadamente"
GenericMessage == "page.evaluate: Execution context was destroyed"

\* the locals of a run before its first step
RunLocals ==
  /\ closed = FALSE
  /\ ui = NoOverlay
  /\ enrich = NoEnrichment
  /\ filters = NoFilters
  /\ scrollsDone = 0
  /\ scrollResult = NoScroll
  /\ allLeads = <<>>
  /\ scrollCount = 0
  /\ noNewLeadsCount = 0
  /\ reachedTargetDate = FALSE
  /\ previousCount = 0
  /\ visibleLeads = <<>>
  /\ usedFallback = FALSE
  /\ leadsToProcess = <<>>
  /\ idx = 1
  /\ error = "none"
  /\ exitPath = "none"
  /\ leadsArray = <<>>
  /\ result = NoResult
  /\ response = NoResponse

\* a server that has served no request
ServerStart ==
  /\ logins = 0
  /\ runs = 0
  /\ savedCookies = FALSE
  /\ browser = NULL
  /\ launched = 0
  /\ pages = [p \in Runs |-> <<>>]
  /\ active = [r \in Runs |-> NoRun]

\* the state at the call of scrapeLeadsUntilDate
RunStart ==
  /\ pc = "filtering"
  /\ fnArg = NULL
  /\ fnRet = NULL
  /\ request = NoRequest
  /\ route = "current"
  /\ ServerStart
  /\ RunLocals

\* the options of scrapeLeadsUntilDate other than status and targetDate
RunOptions ==
  /\ maxScrolls \in {1, StallLimit + ScrollsOver}
  /\ maxLeads \in {1, MaxLeadsOpt}
  /\ extractDetails \in BOOLEAN

\* the state at the call of scrapeLeadsUntilDate, on a page holding rows
Start(rows) ==
  /\ status \in {"pendiente_contactar", "all"}
  /\ targetDate = Instant(2024, 1, 13, 0, 0)
  /\ RunOptions
  /\ pageRows = rows
  /\ rendered \in SeqsUpTo(pageRows, MaxRows)
  /\ RunStart

Init == Start(RowSet)

\* an error escapes scrapeLeadsUntilDate
Throw(e) ==
  /\ pc' = "thrown"
  /\ error' = e

(***************************************************************************)
(* The environment                                                         *)
(***************************************************************************)
Running == pc \in {"filtering", "loop", "scan", "process", "scroll", "final"}

\* another user logs in with the same credentials
SessionClose ==
  /\ Running
  /\ ~closed
  /\ closed' = TRUE
  /\ UNCHANGED <<filters, enrichment, scrollResult, scrollsDone, overlap, outside, savedCookies, browser>>
  /\ UNCHANGED <<exitPath, options, rendered, pc, allLeads, scrollCount, noNewLeadsCount,
                 reachedTargetDate, previousCount, visibleLeads, usedFallback,
                 leadsToProcess, idx, error, leadsArray, result, response>>

(***************************************************************************)
(* scrapeLeadsUntilDate                                                    *)
(***************************************************************************)
\* the filters, the wait and the scroll to the top, before the loop
ApplyFilters ==
  /\ pc = "filtering"
  /\ \E evaluateFails \in BOOLEAN :
       IF closed THEN Throw("session")
       ELSE IF evaluateFails THEN Throw("generic")
       ELSE pc' = "loop" /\ error' = error
  /\ UNCHANGED <<filters, enrichment, scrollResult, scrollsDone, overlap, outside, savedCookies, browser>>
  /\ UNCHANGED <<exitPath, options, rendered, closed, allLeads, scrollCount, noNewLeadsCount,
                 reachedTargetDate, previousCount, visibleLeads, usedFallback,
                 leadsToProcess, idx, leadsArray, result, response>>

\* the while condition is false: the store is exported
LoopExit ==
  /\ pc = "loop"
  /\ ~LoopCond(scrollCount, Len(allLeads), noNewLeadsCount, reachedTargetDate,
               maxScrolls, maxLeads)
  /\ leadsArray' = Values(allLeads)
  /\ exitPath' = "while"
  /\ pc' = "returned"
  /\ UNCHANGED <<filters, enrichment, scrollResult, scrollsDone, overlap, outside, savedCookies, browser>>
  /\ UNCHANGED <<options, rendered, closed, allLeads, scrollCount, noNewLeadsCount,
                 reachedTargetDate, previousCount, visibleLeads, usedFallback,
                 leadsToProcess, idx, error, result, response>>

\* the head of an iteration: the session check and previousCount
LoopHead ==
  /\ pc = "loop"
  /\ LoopCond(scrollCount, Len(allLeads), noNewLeadsCount, reachedTargetDate,
              maxScrolls, maxLeads)
  /\ scrollResult' = NoScroll
  /\ IF closed
     THEN Throw("session") /\ UNCHANGED previousCount
     ELSE pc' = "scan" /\ previousCount' = Len(allLeads) /\ error' = error
  /\ UNCHANGED <<filters, enrichment, scrollsDone, overlap, outside, savedCookies, browser>>
  /\ UNCHANGED <<exitPath, options, rendered, closed, allLeads, scrollCount, noNewLeadsCount,
                 reachedTargetDate, visibleLeads, usedFallback,
                 leadsToProcess, idx, leadsArray, result, response>>

\* scrapeVisibleLeads, then the date filter over what it returned
ScanPass ==
  /\ pc = "scan"
  /\ \E scrapeError \in {"none", "generic"}, llm \in extractLeadsFromHTML(rendered) :
       LET raised == IF closed THEN "session" ELSE scrapeError
           visible == IF raised = "none"
                      THEN scrapeVisibleLeads(rendered, status, llm)
                      ELSE <<>>
           filtered == FilterByDate(visible, 1, allLeads, targetDate, <<>>)
       IN IF raised # "none" /\ scrapeVisibleCatch(raised) = "rethrow"
          THEN /\ Throw(raised)
               /\ UNCHANGED <<visibleLeads, usedFallback, leadsToProcess, idx,
                              reachedTargetDate>>
          ELSE /\ visibleLeads' = visible
               /\ usedFallback' = (raised = "none"
                                   /\ Len(StructuralLeads(rendered, status)) = 0
                                   /\ Len(llm) > 0)
               /\ leadsToProcess' = filtered.toProcess
               /\ reachedTargetDate' = filtered.reached
               /\ idx' = 1
               /\ pc' = "process"
               /\ error' = error
  /\ UNCHANGED <<filters, enrichment, scrollResult, scrollsDone, overlap, outside, savedCookies, browser>>
  /\ UNCHANGED <<exitPath, options, rendered, closed, allLeads, scrollCount, noNewLeadsCount,
                 previousCount, leadsArray, result, response>>

\* one accepted row: the maxLeads check, the enrichment, allLeads.set
ProcessLead ==
  /\ pc = "process"
  /\ idx <= Len(leadsToProcess)
  /\ Len(allLeads) < maxLeads
  /\ LET item == leadsToProcess[idx]
     IN IF extractDetails
        THEN IF closed
             THEN Throw("session") /\ UNCHANGED <<allLeads, idx>>
             ELSE \E po \in PropertyOutcomes, co \in ContactOutcomes :
                    LET leadWithProperty == extractPropertyDetails(item.lead, po)
                        contactInfo == extractContactDetails(item.lead, co)
                    IN /\ allLeads' = Set(allLeads, item.key,
                             structuredLead(item.lead,
                                            Field(leadWithProperty, "propertyId"),
                                            Field(leadWithProperty, "propertyAgent"),
                                            contactInfo))
                       /\ idx' = idx + 1
                       /\ UNCHANGED <<pc, error>>
        ELSE /\ allLeads' = Set(allLeads, item.key,
                                structuredLead(item.lead, NULL, NULL,
                                  NoContact))
             /\ idx' = idx + 1
             /\ UNCHANGED <<pc, error>>
  /\ UNCHANGED <<filters, enrichment, scrollResult, scrollsDone, overlap, outside, savedCookies, browser>>
  /\ UNCHANGED <<exitPath, options, rendered, closed, scrollCount, noNewLeadsCount,
                 reachedTargetDate, previousCount, visibleLeads, usedFallback,
                 leadsToProcess, leadsArray, result, response>>

\* after the rows of the pass: the cutoff break, or the counters
EndPass ==
  /\ pc = "process"
  /\ idx > Len(leadsToProcess) \/ Len(allLeads) >= maxLeads
  /\ scrollCount < CounterCap
  /\ IF breakAfterPass(reachedTargetDate)
     THEN /\ leadsArray' = Values(allLeads)
          /\ exitPath' = "cutoff"
          /\ pc' = "returned"
          /\ UNCHANGED <<noNewLeadsCount, scrollCount, visibleLeads, usedFallback,
                         leadsToProcess, idx>>
     ELSE /\ noNewLeadsCount' = countStall(Len(allLeads) - previousCount,
                                           noNewLeadsCount)
          /\ scrollCount' = scrollCount + 1
          /\ pc' = "scroll"
          \* visibleLeads and leadsToProcess are locals of the loop body
          /\ visibleLeads' = <<>>
          /\ usedFallback' = FALSE
          /\ leadsToProcess' = <<>>
          /\ idx' = 1
          /\ UNCHANGED <<leadsArray, exitPath>>
  /\ UNCHANGED <<filters, enrichment, scrollResult, scrollsDone, overlap, outside, savedCookies, browser>>
  /\ UNCHANGED <<options, rendered, closed, allLeads, reachedTargetDate,
                 previousCount, error, result, response>>

\* scrollContainer, and the test for the end of the content
Scroll ==
  /\ pc = "scroll"
  /\ \E evaluateFails \in BOOLEAN, out \in ScrollOutcomes,
        more \in SeqsUpTo(pageRows \ Range(rendered), 1) :
       IF closed
       THEN Throw("session") /\ UNCHANGED <<rendered, scrollsDone, scrollResult>>
       ELSE IF evaluateFails
       THEN Throw("generic") /\ UNCHANGED <<rendered, scrollsDone, scrollResult>>
       ELSE /\ more = <<>> \/ Len(rendered) < MaxRows
            /\ rendered' = rendered \o more
            /\ scrollsDone' = scrollsDone + 1
            /\ scrollResult' = out
            /\ pc' = IF EndOfScroll(out[1], out[2]) THEN "final" ELSE "loop"
            /\ error' = error
  /\ UNCHANGED <<filters, enrichment, overlap, outside, savedCookies, browser>>
  /\ UNCHANGED <<exitPath, options, closed, allLeads, scrollCount, noNewLeadsCount,
                 reachedTargetDate, previousCount, visibleLeads, usedFallback,
                 leadsToProcess, idx, leadsArray, result, response>>

\* the end-of-scroll pass: the wait, scrapeVisibleLeads, the merge, the break
FinalPass ==
  /\ pc = "final"
  /\ \E scrapeError \in {"none", "generic"}, llm \in extractLeadsFromHTML(rendered) :
       LET final == IF scrapeError = "none"
                    THEN scrapeVisibleLeads(rendered, status, llm)
                    ELSE <<>>
       IN IF closed
          THEN /\ Throw("session")
               /\ UNCHANGED <<visibleLeads, usedFallback, allLeads, leadsArray, exitPath>>
          ELSE /\ visibleLeads' = final
               /\ usedFallback' = (scrapeError = "none"
                                   /\ Len(StructuralLeads(rendered, status)) = 0
                                   /\ Len(llm) > 0)
               /\ allLeads' = MergeFinal(final, 1, allLeads, targetDate)
               /\ leadsArray' = Values(allLeads')
               /\ exitPath' = "end"
               /\ pc' = "returned"
               /\ error' = error
  /\ UNCHANGED <<filters, enrichment, scrollResult, scrollsDone, overlap, outside, savedCookies, browser>>
  /\ UNCHANGED <<options, rendered, closed, scrollCount, noNewLeadsCount,
                 reachedTargetDate, previousCount, leadsToProcess, idx,
                 result, response>>

\* what scrapeLeadsUntilDate gives back when the loop is over: the array it
\* returns and the fields of its completion log entry
Completion ==
  [leads |-> leadsArray, totalLeads |-> Len(leadsArray), scrollAttempts |-> scrollCount,
   status |-> status, reachedTargetDate |-> reachedTargetDate]

(***************************************************************************)
(* scrapeLeads and the route                                               *)
(***************************************************************************)
errorMessage(e) == IF e = "session" THEN SessionClosedMessage ELSE GenericMessage

\* the frame of scrapeLeadsUntilDate is gone and browser.close() drops the page
Released ==
  /\ rendered' = <<>>
  /\ scrollsDone' = 0
  /\ scrollResult' = NoScroll
  /\ closed' = FALSE
  /\ allLeads' = <<>>
  /\ scrollCount' = 0
  /\ noNewLeadsCount' = 0
  /\ reachedTargetDate' = FALSE
  /\ previousCount' = 0
  /\ visibleLeads' = <<>>
  /\ usedFallback' = FALSE
  /\ leadsToProcess' = <<>>
  /\ idx' = 1
  /\ leadsArray' = <<>>

\* scrapeLeads after scrapeLeadsUntilDate returned
ScrapeLeadsReturn ==
  /\ pc = "returned"
  /\ savedCookies' = TRUE
  /\ UNCHANGED browser
  /\ result' = [success |-> TRUE, leads |-> leadsArray, totalLeads |-> Len(leadsArray)]
  /\ pc' = "result"
  /\ Released
  /\ UNCHANGED <<filters, enrichment, overlap, outside>>
  /\ UNCHANGED <<exitPath, options, error, response>>

\* the catch of scrapeLeads
ScrapeLeadsCatch ==
  /\ pc = "thrown"
  /\ result' = [success |-> FALSE, leads |-> <<>>, error |-> errorMessage(error)]
  /\ pc' = "result"
  /\ Released
  /\ UNCHANGED <<filters, enrichment, overlap, outside, savedCookies, browser>>
  /\ UNCHANGED <<exitPath, options, error, response>>

\* result.isSessionClosed is truthy
isSessionClosed(res) == "isSessionClosed" \in DOMAIN res /\ res.isSessionClosed = TRUE

\* the answer of POST /api/leads/scrape to the result of scrapeLeads
routeResponse(res) ==
  IF res.success = TRUE
  THEN [status |-> 200, success |-> TRUE, leads |-> res.leads, code |-> NULL]
  ELSE IF isSessionClosed(res)
       THEN [status |-> 500, success |-> FALSE, leads |-> <<>>, code |-> "SESSION_CLOSED"]
       ELSE [status |-> 500, success |-> FALSE, leads |-> <<>>, code |-> NULL]

RouterRespond ==
  /\ pc = "result"
  /\ response' = routeResponse(result)
  /\ pc' = "responded"
  /\ UNCHANGED <<filters, enrichment, scrollResult, scrollsDone, overlap, outside, savedCookies, browser>>
  /\ UNCHANGED <<exitPath, options, rendered, closed, allLeads, scrollCount, noNewLeadsCount,
                 reachedTargetDate, previousCount, visibleLeads, usedFallback,
                 leadsToProcess, idx, error, leadsArray, result>>

\* the steps of the program
Step ==
  \/ ApplyFilters
  \/ LoopExit
  \/ LoopHead
  \/ ScanPass
  \/ ProcessLead
  \/ EndPass
  \/ Scroll
  \/ FinalPass
  \/ ScrapeLeadsReturn
  \/ ScrapeLeadsCatch
  \/ RouterRespond

Next == Step \/ SessionClose

Spec == Init /\ [][Next]_vars

\* the runs whose termination is checked: the two-row page, no enrichment
LiveInit ==
  /\ Start(LiveRowSet)
  /\ ~extractDetails

\* every awaited browser operation returns or times out
FairSpec == LiveInit /\ [][Next]_vars /\ WF_vars(Step)

(***************************************************************************)
(* The route before the run, scrapeLeads before scrapeLeadsUntilDate, and  *)
(* the next request                                                        *)
(***************************************************************************)
validStatuses ==
  {"para_reasignacion", "sin_seguimiento", "pendiente_contactar",
   "esperando_respuesta", "evolucionando", "tomar_accion", "congelado", "all"}

\* new Date(targetDate) on the strings of the model; NoDate is Invalid Date
RequestDates == [x \in {"2024-01-13"} |-> Instant(2024, 1, 13, 0, 0)]

parsedTargetDate(str) ==
  IF str \in DOMAIN RequestDates THEN RequestDates[str] ELSE NoDate

\* request bodies; a field that is not sent is undefined, and a maxLeads
\* that is not sent is 0, which maxLeads || 10000 treats alike
Requests ==
  [targetDate : {NULL, "2024-01-13", "pronto"},
   status : {NULL, "pendiente_contactar", "all", "por_asignar"},
   maxLeads : {0, 1}]

\* status || 'pendiente_contactar' in one route file, status || 'all' in the other
selectedStatus(file, st) ==
  IF file = "current" THEN OrElse(st, "pendiente_contactar") ELSE OrElse(st, "all")

\* the request is answered 400 by the route file
Rejected(file, req) ==
  \/ req.targetDate = NULL \/ req.targetDate = EMPTY
  \/ parsedTargetDate(req.targetDate) = NoDate
  \/ file = "current" /\ selectedStatus(file, req.status) \notin validStatuses

\* the handler of POST /api/leads/scrape up to the call of scrapeLeads, and
\* the destructuring of the options in scrapeLeads
RouterReceive ==
  /\ pc = "request"
  /\ IF Rejected(route, request)
     THEN /\ response' = [status |-> 400, success |-> FALSE, leads |-> <<>>,
                          code |-> NULL]
          /\ pc' = "responded"
          /\ UNCHANGED <<status, targetDate, maxLeads, extractDetails>>
     ELSE /\ status' = selectedStatus(route, request.status)
          /\ targetDate' = parsedTargetDate(request.targetDate)
          /\ maxLeads' = IF request.maxLeads = 0 THEN DefaultMaxLeads
                         ELSE request.maxLeads
          /\ extractDetails' = FALSE
          /\ pc' = "launch"
          /\ UNCHANGED response
  /\ UNCHANGED <<filters, enrichment, scrollResult, scrollsDone, overlap, outside, savedCookies, browser, maxScrolls, pageRows, rendered, closed,
                 allLeads, scrollCount, noNewLeadsCount, reachedTargetDate,
                 previousCount, visibleLeads, usedFallback, leadsToProcess, idx,
                 error, exitPath, leadsArray, result>>

\* createBrowser: a new browser, context and page, or the launch fails
CreateBrowser ==
  /\ pc = "launch"
  /\ \E fails \in BOOLEAN :
       IF fails THEN Throw("generic") ELSE pc' = "login" /\ error' = error
  /\ UNCHANGED <<filters, enrichment, scrollResult, scrollsDone, overlap, outside, savedCookies, browser, options, rendered, closed, allLeads,
                 scrollCount, noNewLeadsCount, reachedTargetDate, previousCount,
                 visibleLeads, usedFallback, leadsToProcess, idx, exitPath,
                 leadsArray, result, response>>

\* loginToTokko: the login sequence, which may fail
LoginToTokko ==
  /\ pc = "login"
  /\ logins' = logins + 1
  /\ \E fails \in BOOLEAN :
       IF fails THEN Throw("generic") ELSE pc' = "navigate" /\ error' = error
  /\ UNCHANGED <<filters, enrichment, scrollResult, scrollsDone, overlap, fnArg, fnRet, request, route, runs, savedCookies, browser, options,
                 rendered, closed, allLeads, scrollCount, noNewLeadsCount,
                 reachedTargetDate, previousCount, visibleLeads, usedFallback,
                 leadsToProcess, idx, exitPath, leadsArray, result, response>>

\* navigateToLeads: the leads page renders its first rows
NavigateToLeads ==
  /\ pc = "navigate"
  /\ \E fails \in BOOLEAN, rows \in SeqsUpTo(pageRows, MaxRows) :
       IF closed THEN Throw("session") /\ UNCHANGED rendered
       ELSE IF fails THEN Throw("generic") /\ UNCHANGED rendered
       ELSE pc' = "filtering" /\ rendered' = rows /\ error' = error
  /\ UNCHANGED <<filters, enrichment, scrollResult, scrollsDone, overlap, outside, savedCookies, browser, options, closed, allLeads,
                 scrollCount, noNewLeadsCount, reachedTargetDate, previousCount,
                 visibleLeads, usedFallback, leadsToProcess, idx, exitPath,
                 leadsArray, result, response>>

\* the server takes the next request
NextRequest ==
  /\ pc = "responded"
  /\ runs + 1 < MaxRuns
  /\ runs' = runs + 1
  /\ request' \in Requests
  /\ pc' = "request"
  /\ error' = "none"
  /\ exitPath' = "none"
  /\ result' = NoResult
  /\ response' = NoResponse
  /\ UNCHANGED <<filters, enrichment, scrollResult, scrollsDone, overlap, fnArg, fnRet, route, logins, savedCookies, browser, options, rendered,
                 closed, allLeads, scrollCount, noNewLeadsCount, reachedTargetDate,
                 previousCount, visibleLeads, usedFallback, leadsToProcess, idx,
                 leadsArray>>

\* a server with one of the two route files receives its first request
ApiInit ==
  /\ pc = "request"
  /\ request \in Requests
  /\ route \in {"current", "legacy"}
  /\ ServerStart
  /\ fnArg = NULL
  /\ fnRet = NULL
  /\ status = NULL
  /\ targetDate = NoDate
  /\ maxScrolls = DefaultMaxScrolls
  /\ maxLeads = DefaultMaxLeads
  /\ extractDetails = FALSE
  /\ pageRows = LiveRowSet
  /\ rendered = <<>>
  /\ RunLocals

ApiNext ==
  \/ RouterReceive
  \/ CreateBrowser
  \/ LoginToTokko
  \/ NavigateToLeads
  \/ NextRequest
  \/ Next

ApiSpec == ApiInit /\ [][ApiNext]_vars

(***************************************************************************)
(* Overlapping runs: POST /api/leads/scrape awaits scrapeLeads, so a       *)
(* second request starts its own call while the first is in flight.  Each  *)
(* call is followed pass by pass, without enrichment.                      *)
(***************************************************************************)
\* the rows Tokko may render on a page of the overlapping runs
OverlapRows == LiveRowSet

\* one browser for every call
sharedBrowser(n) == 1

\* chromium.launch, browser.newContext, context.newPage: the page of the
\* n+1st call of createBrowser
createBrowser(n) == n + 1

\* the for loop over leadsToProcess, extractDetails false
RECURSIVE processLeads(_, _, _, _)
processLeads(items, i, store, maxL) ==
  IF i > Len(items) \/ Len(store) >= maxL THEN store
  ELSE processLeads(items, i + 1,
         Set(store, items[i].key,
             structuredLead(items[i].lead, NULL, NULL, NoContact)),
         maxL)

\* the count of the metadata left at zero
successResultNoCount(leads) == [success |-> TRUE, leads |-> leads, totalLeads |-> 0]

\* the return of scrapeLeads for the leads of scrapeLeadsUntilDate
successResult(leads) == [success |-> TRUE, leads |-> leads, totalLeads |-> Len(leads)]

\* run r creates its browser, context and page
OverlapCreateBrowser(r) ==
  /\ pc = "overlap"
  /\ active[r].pc = "launch"
  /\ launched' = launched + 1
  /\ active' = [active EXCEPT ![r].page = createBrowser(launched), ![r].pc = "login"]
  /\ pages' = [pages EXCEPT ![createBrowser(launched)] = <<>>]

\* loginToTokko and navigateToLeads on the page of run r
OverlapOpenLeads(r) ==
  /\ pc = "overlap"
  /\ active[r].pc = "login"
  /\ \E first \in SeqsUpTo(OverlapRows, 1) :
       pages' = [pages EXCEPT ![active[r].page] = first]
  /\ active' = [active EXCEPT ![r].pc = "scan"]
  /\ UNCHANGED launched

\* one pass of the loop of run r: the rows of its page, the cutoff, its store
OverlapPass(r) ==
  /\ pc = "overlap"
  /\ active[r].pc = "scan"
  /\ LET mine == active[r]
         visible == scrapeVisibleLeads(pages[mine.page], status, <<>>)
         filtered == FilterByDate(visible, 1, mine.allLeads, targetDate, <<>>)
         store == processLeads(filtered.toProcess, 1, mine.allLeads, maxLeads)
     IN IF filtered.reached
        THEN active' = [active EXCEPT ![r].allLeads = store,
                                      ![r].result = successResult(Values(store)),
                                      ![r].pc = "done"]
        ELSE active' = [active EXCEPT ![r].allLeads = store,
                                      ![r].scrollCount = mine.scrollCount + 1,
                                      ![r].pc = "scroll"]
  /\ UNCHANGED <<launched, pages>>

\* scrollContainer on the page of run r, then the loop test or the end of scroll
OverlapScroll(r) ==
  /\ pc = "overlap"
  /\ active[r].pc = "scroll"
  /\ LET mine == active[r]
     IN \E more \in SeqsUpTo(OverlapRows \ Range(pages[mine.page]), 1) :
          /\ pages' = [pages EXCEPT ![mine.page] = pages[mine.page] \o more]
          /\ IF more # <<>>
                /\ LoopCond(mine.scrollCount, Len(mine.allLeads), 0, FALSE,
                            maxScrolls, maxLeads)
             THEN active' = [active EXCEPT ![r].pc = "scan"]
             ELSE LET final == scrapeVisibleLeads(pages'[mine.page], status, <<>>)
                      store == IF more = <<>>
                               THEN MergeFinal(final, 1, mine.allLeads, targetDate)
                               ELSE mine.allLeads
                  IN active' = [active EXCEPT ![r].allLeads = store,
                                              ![r].result = successResult(Values(store)),
                                              ![r].pc = "done"]
  /\ UNCHANGED launched

OverlapNext ==
  \E r \in Runs :
    /\ \/ OverlapCreateBrowser(r)
       \/ OverlapOpenLeads(r)
       \/ OverlapPass(r)
       \/ OverlapScroll(r)
    /\ UNCHANGED <<filters, enrichment, scrollResult, scrollsDone, outside, savedCookies, browser, options, rendered, closed, pc,
                   allLeads,
                   scrollCount, noNewLeadsCount, reachedTargetDate, previousCount,
                   visibleLeads, usedFallback, leadsToProcess, idx, error,
                   exitPath, leadsArray, result, response>>

\* the server with MaxRuns requests received at once
OverlapInit ==
  /\ pc = "overlap"
  /\ fnArg = NULL
  /\ fnRet = NULL
  /\ request = NoRequest
  /\ route = "current"
  /\ ServerStart
  /\ status = "all"
  /\ targetDate \in {Instant(2024, 1, 13, 0, 0), Instant(2019, 1, 1, 0, 0)}
  /\ maxScrolls = DefaultMaxScrolls
  /\ maxLeads \in {1, DefaultMaxLeads}
  /\ extractDetails = FALSE
  /\ pageRows = OverlapRows
  /\ rendered = <<>>
  /\ RunLocals

OverlapSpec == OverlapInit /\ [][OverlapNext]_vars

(***************************************************************************)
(* Enrichment click by click: the for loop over leadsToProcess with        *)
(* extractDetails, extractPropertyDetails and extractContactDetails        *)
(* followed through their clicks and key presses.  Whether an element is   *)
(* visible, whether a click opens its overlay and whether Escape or a      *)
(* click outside hides it is the page's choice; any Playwright call may    *)
(* raise.                                                                  *)
(***************************************************************************)
\* the rows whose leads are enriched
EnrichRows ==
  { DataRow("Juan", "Ana", "Colombres 148", "26/11/2025 08:15"),
    DataRow("Eva", "Ana", "Lavalle 300", "13/01/2024 00:00"),
    DataRow("Eva", "Ana", "+", "13/01/2024 00:00") }

\* the entry of leadsToProcess for a row
itemOf(row) ==
  LET lead == parseLeadFromText(row)
  IN [lead |-> lead, key |-> getLeadKey(lead), leadDate |-> leadDateOf(lead)]

\* what the popover of a contact reads as, after the matching of email and phones
ContactCard(name) ==
  IF name = "Juan"
  THEN [email |-> "juan@mail.com", phone |-> "+541112345678",
        cellPhone |-> "+5491112345678"]
  ELSE [email |-> "eva@mail.com", phone |-> NULL, cellPhone |-> NULL]

\* Escape is pressed only when the modal appeared
dismissIfAppeared(appeared) == appeared

\* page.keyboard.press('Escape') comes after the try/catch around the modal:
\* it is reached whether the modal appeared or not
dismissAfter(appeared) == TRUE

\* the lead being enriched
current == leadsToProcess[idx].lead

\* extractPropertyDetails ends with ret
PropertyReturns(ret, interacted) ==
  enrich' = [enrich EXCEPT !.at = "contact", !.leadWithProperty = ret,
                           !.interacted = interacted]

\* extractContactDetails ends with info
ContactReturns(info) ==
  enrich' = [enrich EXCEPT !.at = "merge", !.contactInfo = info]

\* extractPropertyDetails up to the click on the property link and the
\* reading of the modal
EnrichPropertyOpen ==
  /\ pc = "enrich"
  /\ idx <= Len(leadsToProcess)
  /\ Len(allLeads) < maxLeads
  /\ enrich.at = "property"
  /\ IF closed
     THEN Throw("session") /\ UNCHANGED <<ui, enrich>>
     ELSE /\ UNCHANGED <<pc, error>>
          /\ IF ~validAddress(current)
             THEN PropertyReturns(current, FALSE) /\ UNCHANGED ui
             ELSE \E po \in PropertyOutcomes, clickFails \in BOOLEAN :
                    IF po = "absent" \/ clickFails
                    THEN PropertyReturns(current, TRUE) /\ UNCHANGED ui
                    ELSE /\ ui' = [ui EXCEPT !.modal = (po = "modal")]
                         /\ enrich' = [enrich EXCEPT !.at = "escape",
                                                     !.activated = TRUE,
                                                     !.interacted = TRUE,
                                                     !.outcome = po]
  /\ UNCHANGED <<allLeads, idx>>

\* Escape and the wait for the modal to be hidden
EnrichPropertyEscape ==
  /\ pc = "enrich"
  /\ enrich.at = "escape"
  /\ IF dismissAfter(ui.modal)
     THEN \E hides \in BOOLEAN, pressFails \in BOOLEAN :
            IF pressFails
            THEN /\ enrich' = [enrich EXCEPT !.at = "contact", !.escaped = TRUE,
                                             !.leadWithProperty = current]
                 /\ UNCHANGED ui
            ELSE /\ ui' = [ui EXCEPT !.modal = ui.modal /\ ~hides]
                 /\ IF ui'.modal
                    THEN enrich' = [enrich EXCEPT !.at = "clickOutside",
                                                  !.escaped = TRUE]
                    ELSE enrich' = [enrich EXCEPT
                           !.at = "contact", !.escaped = TRUE,
                           !.leadWithProperty =
                              extractPropertyDetails(current, enrich.outcome)]
     ELSE /\ PropertyReturns(extractPropertyDetails(current, enrich.outcome), TRUE)
          /\ UNCHANGED ui
  /\ UNCHANGED <<pc, error, allLeads, idx>>

\* the click at (10, 10) and the second wait, whose timeout is swallowed
EnrichClickOutside ==
  /\ pc = "enrich"
  /\ enrich.at = "clickOutside"
  /\ \E hides \in BOOLEAN, clickFails \in BOOLEAN :
       IF clickFails
       THEN PropertyReturns(current, TRUE) /\ UNCHANGED ui
       ELSE /\ ui' = [ui EXCEPT !.modal = ui.modal /\ ~hides]
            /\ PropertyReturns(extractPropertyDetails(current, enrich.outcome), TRUE)
  /\ UNCHANGED <<pc, error, allLeads, idx>>

\* extractContactDetails up to the click on the contact and the reading of
\* whatever tooltip is visible
EnrichContactOpen ==
  /\ pc = "enrich"
  /\ enrich.at = "contact"
  /\ IF closed
     THEN Throw("session") /\ UNCHANGED <<ui, enrich>>
     ELSE /\ UNCHANGED <<pc, error>>
          /\ IF OrElse(Field(current, "contactName"), NULL) = NULL
             THEN ContactReturns(NoContact) /\ UNCHANGED ui
             ELSE \E visible \in BOOLEAN, clickFails \in BOOLEAN, opens \in BOOLEAN :
                    IF ~visible \/ clickFails
                    THEN ContactReturns(NoContact) /\ UNCHANGED ui
                    ELSE /\ ui' = [ui EXCEPT !.popover = IF opens
                                                         THEN current.contactName
                                                         ELSE ui.popover]
                         /\ enrich' = [enrich EXCEPT
                              !.at = "popoverEscape",
                              !.opened = opens,
                              !.contactInfo = IF ui'.popover # NULL
                                              THEN ContactCard(ui'.popover)
                                              ELSE NoContact]
  /\ UNCHANGED <<allLeads, idx>>

\* Escape and the wait of 200 ms after the popover was read
EnrichPopoverEscape ==
  /\ pc = "enrich"
  /\ enrich.at = "popoverEscape"
  /\ \E hides \in BOOLEAN, pressFails \in BOOLEAN :
       IF pressFails
       THEN ContactReturns(NoContact) /\ UNCHANGED ui
       ELSE /\ ui' = [ui EXCEPT !.popover = IF hides THEN NULL ELSE ui.popover]
            /\ ContactReturns(enrich.contactInfo)
  /\ UNCHANGED <<pc, error, allLeads, idx>>

\* the structured lead and allLeads.set, then the next lead
EnrichMerge ==
  /\ pc = "enrich"
  /\ enrich.at = "merge"
  /\ allLeads' = Set(allLeads, leadsToProcess[idx].key,
                     structuredLead(current,
                                    Field(enrich.leadWithProperty, "propertyId"),
                                    Field(enrich.leadWithProperty, "propertyAgent"),
                                    enrich.contactInfo))
  /\ idx' = idx + 1
  /\ enrich' = NoEnrichment
  /\ UNCHANGED <<pc, error, ui>>

\* the session is closed under the enrichment
EnrichSessionClose ==
  /\ pc = "enrich"
  /\ ~closed
  /\ closed' = TRUE
  /\ UNCHANGED <<pc, error, allLeads, idx, ui, enrich>>

EnrichNext ==
  /\ \/ EnrichSessionClose
     \/ /\ \/ EnrichPropertyOpen
           \/ EnrichPropertyEscape
           \/ EnrichClickOutside
           \/ EnrichContactOpen
           \/ EnrichPopoverEscape
           \/ EnrichMerge
        /\ UNCHANGED closed
  /\ UNCHANGED <<filters, scrollResult, scrollsDone, overlap, outside, savedCookies, browser,
                 options, rendered, scrollCount, noNewLeadsCount, reachedTargetDate,
                 previousCount, visibleLeads, usedFallback, leadsToProcess,
                 exitPath, leadsArray, result, response>>

\* a pass with extractDetails about to process the accepted rows
EnrichInit ==
  /\ pc = "enrich"
  /\ fnArg = NULL
  /\ fnRet = NULL
  /\ request = NoRequest
  /\ route = "current"
  /\ ServerStart
  /\ status = "all"
  /\ targetDate = Instant(2024, 1, 13, 0, 0)
  /\ maxScrolls = DefaultMaxScrolls
  /\ maxLeads = DefaultMaxLeads
  /\ extractDetails = TRUE
  /\ pageRows = EnrichRows
  /\ rendered \in SeqsUpTo(EnrichRows, MaxEnriched)
  /\ leadsToProcess = [i \in 1..Len(rendered) |-> itemOf(rendered[i])]
  /\ visibleLeads = [i \in 1..Len(rendered) |-> parseLeadFromText(rendered[i])]
  /\ idx = 1
  /\ closed = FALSE
  /\ ui = NoOverlay
  /\ enrich = NoEnrichment
  /\ filters = NoFilters
  /\ scrollsDone = 0
  /\ scrollResult = NoScroll
  /\ allLeads = <<>>
  /\ scrollCount = 0
  /\ noNewLeadsCount = 0
  /\ reachedTargetDate = FALSE
  /\ previousCount = 0
  /\ usedFallback = FALSE
  /\ error = "none"
  /\ exitPath = "none"
  /\ leadsArray = <<>>
  /\ result = NoResult
  /\ response = NoResponse

EnrichSpec == EnrichInit /\ [][EnrichNext]_vars

(***************************************************************************)
(* The filter setup of scrapeLeadsUntilDate step by step                   *)
(***************************************************************************)
\* the values of LEAD_STATUS
LEAD_STATUS ==
  {"all", "para_reasignacion", "sin_seguimiento", "pendiente_contactar",
   "esperando_respuesta", "evolucionando", "tomar_accion", "congelado"}

\* the toggle is enabled whatever the section
toggleAlways(st) == TRUE

\* status === 'para_reasignacion' || status === 'sin_seguimiento'
needsToggleEnabled(st) == st = "para_reasignacion" \/ st = "sin_seguimiento"

\* applyAllBranchesFilter: the filter is applied, or some element is missing or
\* a click raises, which is logged; a closed session is thrown on
FilterAllBranches ==
  /\ pc = "branches"
  /\ IF closed
     THEN Throw("session") /\ UNCHANGED filters
     ELSE \E outcome \in {"applied", "failed"} :
            /\ filters' = [filters EXCEPT !.branchCalls = filters.branchCalls + 1,
                                          !.branches = outcome]
            /\ pc' = "toggle"
            /\ error' = error
  /\ UNCHANGED closed

\* the toggle, for the two sections that need it
FilterToggle ==
  /\ pc = "toggle"
  /\ IF needsToggleEnabled(status)
     THEN IF closed
          THEN Throw("session") /\ UNCHANGED filters
          ELSE \E outcome \in {"enabled", "failed"} :
                 /\ filters' = [filters EXCEPT !.toggleCalls = filters.toggleCalls + 1,
                                               !.toggle = outcome]
                 /\ pc' = "top"
                 /\ error' = error
     ELSE pc' = "top" /\ UNCHANGED <<filters, error>>
  /\ UNCHANGED closed

\* filterByStatus, the wait and the scroll to the top; then the loop
FilterScrollTop ==
  /\ pc = "top"
  /\ \E evaluateFails \in BOOLEAN :
       IF closed THEN Throw("session")
       ELSE IF evaluateFails THEN Throw("generic")
       ELSE pc' = "loop" /\ error' = error
  /\ UNCHANGED <<filters, closed>>

\* the session is closed under the filter setup
FilterSessionClose ==
  /\ pc \in {"branches", "toggle", "top"}
  /\ ~closed
  /\ closed' = TRUE
  /\ UNCHANGED <<filters, pc, error>>

FilterNext ==
  /\ \/ FilterAllBranches
     \/ FilterToggle
     \/ FilterScrollTop
     \/ FilterSessionClose
  /\ UNCHANGED <<enrichment, scrollResult, scrollsDone, overlap, outside, savedCookies, browser,
                 options, rendered, allLeads, scrollCount, noNewLeadsCount,
                 reachedTargetDate, previousCount, visibleLeads, usedFallback,
                 leadsToProcess, idx, exitPath, leadsArray, result, response>>

\* the call of scrapeLeadsUntilDate for any section
FilterInit ==
  /\ status \in LEAD_STATUS
  /\ targetDate = Instant(2024, 1, 13, 0, 0)
  /\ RunOptions
  /\ pageRows = {}
  /\ rendered = <<>>
  /\ pc = "branches"
  /\ fnArg = NULL
  /\ fnRet = NULL
  /\ request = NoRequest
  /\ route = "current"
  /\ ServerStart
  /\ RunLocals

FilterSpec == FilterInit /\ [][FilterNext]_vars

(***************************************************************************)
(* scrapeLeads step by step: the browser it creates, its try, its catch    *)
(* and its finally                                                         *)
(***************************************************************************)
\* createBrowser launches the browser, then asks it for a context and a page;
\* scrapeLeads holds the browser once createBrowser has returned
RunCreateBrowser ==
  /\ pc = "launch"
  /\ \E outcome \in {"returned", "launchFails", "contextFails"} :
       CASE outcome = "returned" ->
              browser' = "open" /\ pc' = "login" /\ error' = error
         [] outcome = "launchFails" ->
              browser' = browser /\ Throw("generic")
         [] outcome = "contextFails" ->
              browser' = "unheld" /\ Throw("generic")
  /\ UNCHANGED <<filters, enrichment, scrollResult, scrollsDone, overlap, outside,
                 savedCookies, options, rendered, closed, allLeads, scrollCount,
                 noNewLeadsCount, reachedTargetDate, previousCount, visibleLeads,
                 usedFallback, leadsToProcess, idx, exitPath, leadsArray, result,
                 response>>

\* saveSession and the return of the try
RunReturn ==
  /\ pc = "returned"
  /\ \E saveFails \in BOOLEAN :
       IF saveFails
       THEN Throw("generic") /\ UNCHANGED <<savedCookies, result>>
       ELSE /\ savedCookies' = TRUE
            /\ result' = successResult(leadsArray)
            /\ pc' = "finally"
            /\ error' = error
  /\ UNCHANGED <<filters, enrichment, scrollResult, scrollsDone, overlap, outside,
                 browser, options, rendered, closed, allLeads, scrollCount,
                 noNewLeadsCount, reachedTargetDate, previousCount, visibleLeads,
                 usedFallback, leadsToProcess, idx, exitPath, leadsArray, response>>

\* the catch of scrapeLeads
RunCatch ==
  /\ pc = "thrown"
  /\ result' = [success |-> FALSE, leads |-> <<>>, error |-> errorMessage(error)]
  /\ pc' = "finally"
  /\ UNCHANGED <<filters, enrichment, scrollResult, scrollsDone, overlap, outside,
                 savedCookies, browser, options, rendered, closed, allLeads,
                 scrollCount, noNewLeadsCount, reachedTargetDate, previousCount,
                 visibleLeads, usedFallback, leadsToProcess, idx, error, exitPath,
                 leadsArray, response>>

\* the finally of scrapeLeads, if (browser) await browser.close(), then the
\* result goes to the caller
RunFinally ==
  /\ pc = "finally"
  /\ browser' = IF browser = "open" THEN "closed" ELSE browser
  /\ pc' = "result"
  /\ Released
  /\ UNCHANGED <<filters, enrichment, overlap, outside, savedCookies, options,
                 error, exitPath, result, response>>

RunNext ==
  \/ RunCreateBrowser
  \/ LoginToTokko
  \/ NavigateToLeads
  \/ ApplyFilters
  \/ LoopExit
  \/ LoopHead
  \/ ScanPass
  \/ ProcessLead
  \/ EndPass
  \/ Scroll
  \/ FinalPass
  \/ SessionClose
  \/ RunReturn
  \/ RunCatch
  \/ RunFinally

\* a call of scrapeLeads about to create its browser
RunInit ==
  /\ pc = "launch"
  /\ fnArg = NULL
  /\ fnRet = NULL
  /\ request = NoRequest
  /\ route = "current"
  /\ ServerStart
  /\ status \in {"pendiente_contactar", "all"}
  /\ targetDate = Instant(2024, 1, 13, 0, 0)
  /\ RunOptions
  /\ pageRows = LiveRowSet
  /\ rendered = <<>>
  /\ RunLocals

RunSpec == RunInit /\ [][RunNext]_vars

(***************************************************************************)
(* Functions applied on their own                                          *)
(***************************************************************************)
\* no run is going on: fn is about to be applied to an argument of args
Apply(fn, args) ==
  /\ pc = "call"
  /\ fnArg \in [fn : {fn}, arg : args]
  /\ fnRet = NULL
  /\ request = NoRequest
  /\ route = "current"
  /\ ServerStart
  /\ status = "all"
  /\ targetDate = Instant(2024, 1, 13, 0, 0)
  /\ maxScrolls = 1
  /\ maxLeads = 1
  /\ extractDetails = FALSE
  /\ pageRows = {}
  /\ rendered = <<>>
  /\ RunLocals

\* the function returned ret
Return(ret) ==
  /\ fnRet' = ret
  /\ pc' = "done"
  /\ UNCHANGED <<filters, enrichment, scrollResult, scrollsDone, overlap, request, route, logins, runs, savedCookies, browser>>
  /\ UNCHANGED <<fnArg, options, rendered, closed, allLeads, scrollCount,
                 noNewLeadsCount, reachedTargetDate, previousCount, visibleLeads,
                 usedFallback, leadsToProcess, idx, error, exitPath, leadsArray,
                 result, response>>

\* the display strings DD/MM/YYYY HH:MM of the calendar dates of two years,
\* by their digits, and two strings that are no date
DateInputs ==
  { [kind |-> "absolute", digits |-> <<d, m, y, h, mi>>] :
      d \in 1..31, m \in 1..12, y \in {2024, 2025}, h \in {0, 8}, mi \in {0, 15} }
  \cup { [kind |-> "text", text |-> t] : t \in {"sin fecha", "-"} }

ValidDateInput(a) ==
  a.kind = "absolute" => a.digits[1] <= DaysInMonth(a.digits[3], a.digits[2])

\* parseDate on an input of DateInputs
parseDateInput(a) ==
  IF a.kind = "absolute" THEN parseDigits(a.digits) ELSE parseDate(a.text)

CallParseDate ==
  /\ pc = "call"
  /\ fnArg.fn = "parseDate"
  /\ Return(parseDateInput(fnArg.arg))

DateInit == Apply("parseDate", { a \in DateInputs : ValidDateInput(a) })

DateSpec == DateInit /\ [][CallParseDate]_vars

\* const now = new Date(): the instant of the call
Now == Instant(2030, 1, 1, 12, 0)

\* a display string by its parts, in the order they stand in the string: the
\* word "hace", "N horas", "N minutos", "N años", "N meses", "N días" (<<>> when
\* the part is missing, <<N>> otherwise), then a date DD/MM/YYYY HH:MM or nothing
DisplayStrings ==
  [hace : BOOLEAN, hours : {<<>>, <<3>>}, minutes : {<<>>, <<20>>},
   years : {<<>>, <<0>>, <<8>>}, months : {<<>>, <<0>>, <<2>>},
   days : {<<>>, <<0>>, <<182>>},
   date : {EMPTY, "26/11/2025 08:15", "01/01/2020 09:00", "13/01/2024 00:00"}]

\* parseInt(match[1], 10) of a part, nothing added when the pattern has no match
Amount(part) == IF part = <<>> THEN 0 ELSE part[1]

\* !dateStr
IsEmptyString(a) ==
  /\ ~a.hace
  /\ a.hours = <<>> /\ a.minutes = <<>>
  /\ a.years = <<>> /\ a.months = <<>> /\ a.days = <<>>
  /\ a.date = EMPTY

\* cleanStr.includes('año') || cleanStr.includes('día') || cleanStr.includes('mes')
MentionsDuration(a) == a.years # <<>> \/ a.months # <<>> \/ a.days # <<>>

totalDays(a) == Amount(a.years) * 365 + Amount(a.months) * 30 + Amount(a.days)

\* new Date(dateStr) of the engine on a display string: a word after a number
\* that was read makes the string invalid, a word in front of the date does not
GenericOf(a) ==
  IF a.hours # <<>> \/ a.minutes # <<>> \/ MentionsDuration(a) THEN NoDate
  ELSE GenericDate(a.date)

\* dateStr.match(/(\d{1,2})\/(\d{1,2})\/(\d{4})/) and new Date(yyyy, mm - 1, dd)
ddmmyyyy(a) ==
  IF a.date = EMPTY THEN NoDate
  ELSE Instant(DateDigits[a.date][3], DateDigits[a.date][2], DateDigits[a.date][1], 0, 0)

\* the rules with the absolute dates tried before the relative ones
parseDateAbsoluteFirst(a) ==
  IF IsEmptyString(a) THEN NoDate
  ELSE IF GenericOf(a) # NoDate THEN GenericOf(a)
  ELSE IF ddmmyyyy(a) # NoDate THEN ddmmyyyy(a)
  ELSE IF MentionsDuration(a) /\ totalDays(a) > 0 THEN Now - totalDays(a) * 24 * 60
  ELSE IF a.hace /\ a.hours # <<>> THEN Now - Amount(a.hours) * 60
  ELSE IF a.hace /\ a.hours = <<>> /\ a.minutes # <<>> THEN Now - Amount(a.minutes)
  ELSE NoDate

\* parseDate on a display string given by its parts; in /hace\s*(\d+)\s*hora/
\* and /hace\s*(\d+)\s*minuto/ the number stands right after "hace"
parseDateOf(a) ==
  IF IsEmptyString(a) THEN NoDate
  ELSE IF MentionsDuration(a) /\ totalDays(a) > 0 THEN Now - totalDays(a) * 24 * 60
  ELSE IF a.hace /\ a.hours # <<>> THEN Now - Amount(a.hours) * 60
  ELSE IF a.hace /\ a.hours = <<>> /\ a.minutes # <<>> THEN Now - Amount(a.minutes)
  ELSE IF GenericOf(a) # NoDate THEN GenericOf(a)
  ELSE ddmmyyyy(a)

CallParseDateOf ==
  /\ pc = "call"
  /\ fnArg.fn = "parseDate"
  /\ Return(parseDateOf(fnArg.arg))

RuleSpec == Apply("parseDate", DisplayStrings) /\ [][CallParseDateOf]_vars

\* the characters of a phone token
DigitChars == {"0", "1", "2", "3", "4", "5", "6", "7", "8", "9"}

\* matches of /\+?\d[\d\s()-]{8,}/g in a popover text, as sequences of characters
PhoneTokens ==
  { <<"+", "5", "4", "9", "1", "1", "1", "2", "3", "4", "5", "6", "7", "8">>,
    <<"5", "4", "9", "1", "1", "1", "2", "3", "4", "5", "6", "7", "8">>,
    <<"+", "5", "4", " ", "9", " ", "1", "1", " ", "1", "2", "3", "4", "-", "5", "6", "7", "8">>,
    <<"+", "5", "4", "1", "1", "1", "2", "3", "4", "5", "6", "7", "8">>,
    <<"5", "4", " ", "1", "1", " ", "4", "5", "5", "5", "-", "1", "2", "3", "4">>,
    <<"0", "1", "1", " ", "5", "4", "9", "1", "-", "1", "2", "3", "4">>,
    <<"+", "5", "9", "4", " ", "9", "1", "2", "3", "4", "5", "6", "7">> }

\* phoneMatch.replace(/[^+\d]/g, '')
RECURSIVE cleanPhoneFrom(_, _)
cleanPhoneFrom(tok, i) ==
  IF i > Len(tok) THEN <<>>
  ELSE IF tok[i] = "+" \/ tok[i] \in DigitChars
       THEN <<tok[i]>> \o cleanPhoneFrom(tok, i + 1)
       ELSE cleanPhoneFrom(tok, i + 1)

cleanPhone(tok) == cleanPhoneFrom(tok, 1)

\* /^\+?549/.test(cleanPhone)
isCellPhone(clean) ==
  LET at == IF Len(clean) >= 1 /\ clean[1] = "+" THEN 2 ELSE 1
  IN /\ Len(clean) >= at + 2
     /\ clean[at] = "5"
     /\ clean[at + 1] = "4"
     /\ clean[at + 2] = "9"

\* no phone kept yet: null
NoPhone == <<>>

\* an assignment without its guard: the last token of a class is kept
KeepLast(kept, clean) == clean

\* if (!cellPhone) cellPhone = cleanPhone, and the same for phone
KeepFirst(kept, clean) == IF kept = NoPhone THEN clean ELSE kept

\* the for loop over phoneMatches
RECURSIVE classifyPhones(_, _, _, _)
classifyPhones(phoneMatches, i, phone, cellPhone) ==
  IF i > Len(phoneMatches) THEN [phone |-> phone, cellPhone |-> cellPhone]
  ELSE LET clean == cleanPhone(phoneMatches[i])
       IN IF isCellPhone(clean)
          THEN classifyPhones(phoneMatches, i + 1, phone, KeepFirst(cellPhone, clean))
          ELSE classifyPhones(phoneMatches, i + 1, KeepFirst(phone, clean), cellPhone)

CallClassifyPhones ==
  /\ pc = "call"
  /\ fnArg.fn = "classifyPhones"
  /\ Return(classifyPhones(fnArg.arg, 1, NoPhone, NoPhone))

PhoneInit == Apply("classifyPhones", SeqsUpTo(PhoneTokens, MaxTokens))

PhoneSpec == PhoneInit /\ [][CallClassifyPhones]_vars

\* the pages of the scenario: the header of the target section, a row dated
\* 26/11/2025 08:15, then a row dated 01/01/2020 09:00 of the same or of
\* another contact
ScenarioPages ==
  { << HeaderRow("Pendiente contactar"),
       DataRow("Juan", "Ana", "Colombres 148", "26/11/2025 08:15"),
       old >> :
    old \in { DataRow("JUAN", "Ana", "Lavalle 300", "01/01/2020 09:00"),
              DataRow("Eva", "Ana", "Lavalle 300", "01/01/2020 09:00") } }

\* a run on a page of the scenario, cutoff 2024-01-01, section pendiente_contactar
ScenarioInit ==
  /\ status = "pendiente_contactar"
  /\ targetDate = Instant(2024, 1, 1, 0, 0)
  /\ RunOptions
  /\ rendered \in ScenarioPages
  /\ pageRows = Range(rendered)
  /\ RunStart

ScenarioSpec == ScenarioInit /\ [][Next]_vars

\* rows of partial text: complete, without date, without address, without
\* the parenthesized agent, and without contact name
PartialRowSet ==
  { DataRow("Juan", "Ana", "Colombres 148", "26/11/2025 08:15"),
    DataRow("Eva", "Ana", "Colombres 148", NULL),
    DataRow("Eva", "Ana", EMPTY, "13/01/2024 00:00"),
    DataRow("Juan", NULL, "Lavalle 300", "26/11/2025 08:15"),
    DataRow(EMPTY, "Ana", "Lavalle 300", "13/01/2024 00:00") }

\* a run on a page of partial rows
PartialInit == Start(PartialRowSet)

PartialSpec == PartialInit /\ [][Next]_vars

(***************************************************************************)
(* Properties                                                              *)
(***************************************************************************)
\* the date the engine resolves for a stored lead
storedDate(l) == parseDate(l.lastUpdated)

\* the date the engine resolves for a scanned lead
scannedDate(l) == parseDate(Field(l, "lastUpdated"))

\* the (contactName, counterpartAddress, rawTimestamp) triple, lower case
IdentityTriple(l) ==
  <<toLowerCase(OrElse(Field(l, "contactName"), EMPTY)),
    toLowerCase(OrElse(Field(l, "propertyAddress"), EMPTY)),
    toLowerCase(OrElse(Field(l, "lastUpdated"), EMPTY))>>

EnrichedFields == {"email", "phone", "cellPhone", "propertyId", "agent"}

\* C1: two scanned rows have the same key if and only if their
\* (contactName, counterpartAddress, rawTimestamp) triples are equal
\* ignoring case.
C1_LeadIdentity ==
  \A i, j \in 1..Len(visibleLeads) :
    (getLeadKey(visibleLeads[i]) = getLeadKey(visibleLeads[j]))
      <=> (IdentityTriple(visibleLeads[i]) = IdentityTriple(visibleLeads[j]))

\* the entries that were in the store when the current pass began
KnownAtPass == IF pc = "final" THEN Len(allLeads) ELSE previousCount

KnownKept ==
  pc \in {"scan", "process", "final"} =>
    /\ Len(allLeads') >= Len(allLeads)
    /\ \A i \in 1..KnownAtPass : allLeads'[i] = allLeads[i]
    /\ \A i \in (Len(allLeads) + 1)..Len(allLeads') :
         \A j \in 1..Len(allLeads) : allLeads'[i].key # allLeads[j].key

\* C2: during a pass, every entry that was in the store when the pass began
\* keeps its place and its Lead, and the store grows only by keys it did not
\* hold: rescanning a merged row changes neither the size nor the Lead.
C2_DedupIdempotence == [][KnownKept]_vars

\* a pass has begun in which a row is scanned whose enriched Lead is stored
C2_Witness ==
  /\ pc = "process"
  /\ previousCount >= 1
  /\ \E i \in 1..Len(visibleLeads) : \E j \in 1..previousCount :
       /\ allLeads[j].key = getLeadKey(visibleLeads[i])
       /\ allLeads[j].lead.email # NULL

NeverErased ==
  \A i \in 1..Len(allLeads) : \A f \in EnrichedFields :
    allLeads[i].lead[f] # NULL =>
      /\ i <= Len(allLeads')
      /\ allLeads'[i].key = allLeads[i].key
      /\ allLeads'[i].lead[f] # NULL

\* C3: once a stored Lead has a non-null email, phone, cellPhone, property id
\* or agent name, no later write replaces that field by null.
C3_EnrichmentMonotonic == [][NeverErased]_vars

\* C4: every stored and every returned Lead is undated or at/after the
\* cutoff; the rows accepted by a main pass are undated or at/after the
\* cutoff; and the end-of-scroll pass keeps every scanned row that is undated
\* or at/after the cutoff.
C4_CutoffSafety ==
  /\ \A i \in 1..Len(allLeads) :
       storedDate(allLeads[i].lead) = NoDate \/ storedDate(allLeads[i].lead) >= targetDate
  /\ \A i \in 1..Len(leadsArray) :
       storedDate(leadsArray[i]) = NoDate \/ storedDate(leadsArray[i]) >= targetDate
  /\ \A i \in 1..Len(leadsToProcess) :
       leadsToProcess[i].leadDate = NoDate \/ leadsToProcess[i].leadDate >= targetDate
  /\ exitPath = "end" =>
       \A i \in 1..Len(visibleLeads) :
         (scannedDate(visibleLeads[i]) = NoDate \/ scannedDate(visibleLeads[i]) >= targetDate)
           => \E j \in 1..Len(allLeads) : allLeads[j].key = getLeadKey(visibleLeads[i])

\* the end-of-scroll pass met a row older than the cutoff and a row dated
\* exactly at the cutoff, and kept the latter only
C4_Witness ==
  /\ exitPath = "end"
  /\ \E i \in 1..Len(visibleLeads) :
       /\ scannedDate(visibleLeads[i]) # NoDate
       /\ scannedDate(visibleLeads[i]) < targetDate
       /\ \A j \in 1..Len(allLeads) : allLeads[j].key # getLeadKey(visibleLeads[i])
  /\ \E j \in 1..Len(allLeads) : storedDate(allLeads[j].lead) = targetDate

\* the first scanned row older than the cutoff, 0 when there is none
FirstOlder(visible) ==
  IF \E i \in 1..Len(visible) :
       scannedDate(visible[i]) # NoDate /\ scannedDate(visible[i]) < targetDate
  THEN CHOOSE i \in 1..Len(visible) :
         /\ scannedDate(visible[i]) # NoDate /\ scannedDate(visible[i]) < targetDate
         /\ \A k \in 1..(i - 1) :
              scannedDate(visible[k]) = NoDate \/ scannedDate(visible[k]) >= targetDate
  ELSE 0

\* C5: in a main pass the first in-section row older than the cutoff sets
\* HitCutoff and no row after it is accepted, whether or not its key is
\* already in the store.
C5_HitCutoff ==
  (pc = "process" /\ ~usedFallback /\ FirstOlder(visibleLeads) # 0) =>
    /\ reachedTargetDate
    /\ \A j \in 1..Len(leadsToProcess) :
         \E i \in 1..(FirstOlder(visibleLeads) - 1) :
           visibleLeads[i] = leadsToProcess[j].lead

\* the stored Lead l was built from the scanned lead r
BuiltFrom(l, r) ==
  /\ l.name = OrElse(Field(r, "contactName"), NULL)
  /\ l.address = OrElse(Field(r, "propertyAddress"), NULL)
  /\ l.lastUpdated = OrElse(Field(r, "lastUpdated"), NULL)

\* C6: when a specific section is requested, every stored Lead comes from a
\* row of that section of the page.
C6_SectionIsolation ==
  status # "all" =>
    \A i \in 1..Len(allLeads) :
      \E k \in 1..Len(StructuralLeads(rendered, status)) :
        BuiltFrom(allLeads[i].lead, StructuralLeads(rendered, status)[k])

\* C7: scrapeLeadsUntilDate eventually returns, unless an error is raised.
C7_Termination == <>(pc \in {"returned", "result", "responded"} \/ error # "none")

\* the run returned after five stalled passes, with no cutoff met and no end
\* of content reported
C7_Witness ==
  /\ pc = "returned"
  /\ exitPath = "while"
  /\ noNewLeadsCount = StallLimit
  /\ ~reachedTargetDate
  /\ scrollCount < maxScrolls

\* C8: the store never holds more than maxLeads Leads, and the returned
\* sequence has at most maxLeads elements.
C8_LeadCeiling ==
  /\ Len(allLeads) <= maxLeads
  /\ Len(leadsArray) <= maxLeads

\* the step the run is about to take begins with a session check
ChecksSession ==
  \/ pc \in {"filtering", "scan", "scroll", "final"}
  \/ pc = "loop" /\ LoopCond(scrollCount, Len(allLeads), noNewLeadsCount,
                             reachedTargetDate, maxScrolls, maxLeads)
  \/ pc = "process" /\ extractDetails /\ idx <= Len(leadsToProcess)
                    /\ Len(allLeads) < maxLeads

CheckRaises ==
  (closed /\ ChecksSession /\ pc' # pc) => (pc' = "thrown" /\ error' = "session")

RaisedEndsRun ==
  error = "session" =>
    /\ pc' \in {"thrown", "result", "responded"}
    /\ error' = error
    /\ Len(allLeads') <= Len(allLeads)
    /\ scrollCount' <= scrollCount
    /\ visibleLeads' \in {visibleLeads, <<>>}
    /\ result'.success # TRUE

\* C9: a session check that finds the page on the not-connected surface
\* raises SessionClosedError out of the run, and from then on the run makes
\* no scan, no merge and no scroll.
C9_SessionPropagates == [][CheckRaises /\ RaisedEndsRun]_vars

\* the session was found closed by the scan of a pass, after a Lead was merged
C9_Witness ==
  /\ pc = "thrown"
  /\ error = "session"
  /\ Len(allLeads) >= 1
  /\ previousCount >= 1

\* C10: the response carries the code SESSION_CLOSED exactly when the run
\* ended because of a SessionClosedError.
C10_SessionClosedCode ==
  pc = "responded" => ((error = "session") <=> (response.code = "SESSION_CLOSED"))

\* C11: no error other than session invalidation escapes the collection run:
\* a failing browser operation is absorbed and the run still returns.
C11_TransientAbsorbed == error \in {"none", "session"}

\* the fragment of the first data row of the scenario
ScenarioFirst == parseLeadFromText(rendered[2])

\* C12: on the page of the scenario a first pass that scans the rows accepts
\* the first data row only and meets the cutoff; the run then returns
\* exactly that row's Lead, by the cutoff and before any scroll.
C12_Scenario ==
  /\ (pc = "process" /\ scrollCount = 0 /\ visibleLeads # <<>>) =>
       /\ reachedTargetDate
       /\ Len(leadsToProcess) = 1
       /\ leadsToProcess[1].lead = ScenarioFirst
  /\ (pc = "returned" /\ scrollCount = 0) =>
       /\ exitPath = "cutoff"
       /\ Len(leadsArray) = 1
       /\ BuiltFrom(leadsArray[1], ScenarioFirst)
  /\ (pc = "returned" /\ exitPath = "cutoff") =>
       /\ Len(allLeads) = 1
       /\ BuiltFrom(allLeads[1].lead, ScenarioFirst)

\* the run of the scenario returned at the cutoff with no scroll made
C12_Witness ==
  /\ pc = "returned"
  /\ exitPath = "cutoff"
  /\ scrollCount = 0
  /\ Len(leadsArray) = 1
  /\ leadsArray[1].lastUpdated = "26/11/2025 08:15"

\* the row bears a contact name
BearsName(row) == row.kind = "data" /\ row.name # NULL /\ row.name # EMPTY

\* the fragment carries what the row shows, a missing part being absent
FragmentOf(lead, row) ==
  /\ lead.contactName = row.name
  /\ lead.lastUpdated = row.ts
  /\ lead._agentName = row.agent

\* C13: every scanned row that bears a contact name yields a fragment,
\* whether or not its date, its address or its parenthesized agent is
\* missing, and a row yields no fragment only when it bears no name.
C13_ParserRobust ==
  (pc = "process" /\ status = "all" /\ ~usedFallback /\ visibleLeads # <<>>) =>
    \A i \in 1..Len(rendered) :
      /\ BearsName(rendered[i]) <=> parseLeadFromText(rendered[i]) # NoLead
      /\ BearsName(rendered[i]) =>
           \E k \in 1..Len(visibleLeads) : FragmentOf(visibleLeads[k], rendered[i])

\* the local instant a display string DD/MM/YYYY HH:MM names
ExactInstant(f) == Instant(f[3], f[2], f[1], f[4], f[5])

\* C14: parseDate resolves every display string DD/MM/YYYY HH:MM of a valid
\* calendar date to the local instant with that day, month, year, hour and
\* minute, and a string matching no rule to null.
C14_AbsoluteDate ==
  (pc = "done" /\ fnArg.fn = "parseDate") =>
    IF fnArg.arg.kind = "absolute"
    THEN fnRet = ExactInstant(fnArg.arg.digits)
    ELSE fnRet = NoDate

\* the digits of a token, in order
RECURSIVE DigitsFrom(_, _)
DigitsFrom(tok, i) ==
  IF i > Len(tok) THEN <<>>
  ELSE (IF tok[i] \in DigitChars THEN <<tok[i]>> ELSE <<>>) \o DigitsFrom(tok, i + 1)

\* the normalized string of a token: its digits after an optional leading +
Normalized(tok) ==
  (IF tok[1] = "+" THEN <<"+">> ELSE <<>>) \o DigitsFrom(tok, 1)

\* the digit string starts with 54 immediately followed by 9
IsMobile(tok) ==
  /\ Len(DigitsFrom(tok, 1)) >= 3
  /\ SubSeq(DigitsFrom(tok, 1), 1, 3) = <<"5", "4", "9">>

\* the normalized first token of toks of the class, null when there is none
FirstOfClass(toks, mobile) ==
  LET of == { i \in 1..Len(toks) : IsMobile(toks[i]) = mobile }
  IN IF of = {} THEN NoPhone
     ELSE Normalized(toks[CHOOSE i \in of : \A j \in of : i <= j])

\* C15: of the phone tokens of a contact panel, the mobile kept is the first
\* token whose digit string starts with 549 and the landline kept is the
\* first other token; later tokens of a class are discarded.
C15_PhoneClasses ==
  (pc = "done" /\ fnArg.fn = "classifyPhones") =>
    /\ fnRet.cellPhone = FirstOfClass(fnArg.arg, TRUE)
    /\ fnRet.phone = FirstOfClass(fnArg.arg, FALSE)

\* a panel with two mobiles and one with two landlines has been classified
C15_Witness ==
  /\ pc = "done"
  /\ fnArg.fn = "classifyPhones"
  /\ Len(fnArg.arg) = 2
  /\ IsMobile(fnArg.arg[1]) = IsMobile(fnArg.arg[2])
  /\ fnArg.arg[1] # fnArg.arg[2]
  /\ fnRet.cellPhone # NoPhone

\* the request lacks a parsable targetDate or names a status outside the
\* seven sections and "all"
InvalidRequest(req) ==
  \/ req.targetDate = NULL
  \/ parsedTargetDate(req.targetDate) = NoDate
  \/ req.status # NULL /\ req.status \notin validStatuses

\* C16: a request with a missing or unparseable targetDate, or with a status
\* outside the enumeration, is answered 400 and starts no run: no browser
\* launch and no login.
C16_RequestValidation ==
  (request # NoRequest /\ InvalidRequest(request)) =>
    /\ pc \in {"request", "responded"}
    /\ pc = "responded" => response.status = 400

\* C17: a request that omits status is run on the section pendiente_contactar.
C17_DefaultStatus ==
  (request # NoRequest /\ request.status = NULL
     /\ pc \in {"launch", "login", "navigate"} \cup
               {"filtering", "loop", "scan", "process", "scroll", "final"}) =>
    status = "pendiente_contactar"

NoLoginOnceSaved == savedCookies => logins' = logins

\* C18: once a run has completed and saved its session cookies, no later run
\* performs the login sequence.
C18_SessionReuse == [][NoLoginOnceSaved]_vars

\* the terminal condition that ended the collection loop
TerminalFired ==
  CASE exitPath = "cutoff" -> "HitCutoff"
    [] exitPath = "end" -> "Done"
    [] exitPath = "while" /\ Len(allLeads) >= maxLeads -> "HitMaxLeads"
    [] OTHER -> "ExhaustedRetries"

\* the terminal condition the completion of the loop names
TerminalReported == IF Completion.reachedTargetDate THEN "HitCutoff" ELSE "unnamed"

\* C20: when the collection loop terminates it yields the export of the store
\* together with the terminal condition that fired (Done, ExhaustedRetries,
\* HitCutoff or HitMaxLeads)
C20_TerminalReported ==
  pc = "returned" =>
    /\ Completion.leads = Values(allLeads)
    /\ TerminalReported = TerminalFired

\* the leads the rows of page p give
LeadsOfPage(p) ==
  { finalLead(parseLeadFromText(row)) : row \in Range(pages[p]) }

\* every run that has a page has one of its own, and the leads of its store and
\* of its result come from the rows of that page
OwnPageAndStore ==
  \A r \in Runs :
    active[r].page # 0 =>
      /\ \A s \in Runs \ {r} : active[s].page # active[r].page
      /\ Range(Values(active[r].allLeads)) \subseteq LeadsOfPage(active[r].page)
      /\ active[r].result # NoResult =>
           Range(active[r].result.leads) \subseteq LeadsOfPage(active[r].page)

\* a step of another run leaves the page, the store, the counter and the result
\* of run r as they were
OthersUntouched ==
  \A r \in Runs :
    (active'[r].pc = active[r].pc /\ active[r].page # 0) =>
      /\ active'[r] = active[r]
      /\ pages'[active[r].page] = pages[active[r].page]

\* C19: every run of scrapeLeads has its own browser page, store and counters;
\* in any interleaving of overlapping runs no lead collected by one run shows up
\* in the other run's result and no run acts on the other's page
C19_RunIsolation == [][OwnPageAndStore' /\ OthersUntouched]_vars

\* two runs are over, each with leads of its own page, the pages showing
\* different rows
C19_Witness ==
  /\ pc = "overlap"
  /\ active[1].pc = "done" /\ active[2].pc = "done"
  /\ Len(active[1].result.leads) > 0
  /\ Len(active[2].result.leads) > 0
  /\ active[1].result.leads # active[2].result.leads

\* the counter of stalled passes follows the passes: previousCount is the size
\* of the store at the head of the pass, the counter moves only at the end of
\* a pass that goes on to scroll, up by one when the store did not grow and
\* back to zero when it did
StallCounted ==
  /\ (pc = "loop" /\ pc' = "scan") => previousCount' = Len(allLeads)
  /\ (pc \in {"scan", "process"} /\ pc' = "process") =>
       previousCount' = previousCount /\ Len(allLeads') >= Len(allLeads)
  /\ (pc = "process" /\ pc' = "scroll") =>
       noNewLeadsCount' = IF Len(allLeads) = previousCount
                          THEN noNewLeadsCount + 1 ELSE 0
  /\ (~(pc = "process" /\ pc' = "scroll") /\ pc' \notin {"result", "responded"}) =>
       noNewLeadsCount' = noNewLeadsCount

\* the loop is left at its head for stalls after StallLimit of them and not
\* before, and no pass starts once the counter is there
StallsEndLoop ==
  /\ noNewLeadsCount <= StallLimit
  /\ (pc = "loop" /\ pc' = "returned" /\ scrollCount < maxScrolls
        /\ Len(allLeads) < maxLeads) => noNewLeadsCount = StallLimit
  /\ (pc = "loop" /\ noNewLeadsCount = StallLimit) => pc' \in {"loop", "returned"}

\* C21: the stall counter goes up by one after each main pass that adds no
\* Lead and back to zero after a pass that adds one; the loop ends for stalls
\* exactly after five stalled passes in a row
C21_StallCounter == [][StallCounted /\ StallsEndLoop]_vars

\* the run returned after five stalled passes in a row that followed a pass
\* which added a Lead
C21_Witness ==
  /\ pc = "returned"
  /\ exitPath = "while"
  /\ noNewLeadsCount = StallLimit
  /\ Len(allLeads) >= 1
  /\ Len(allLeads) < maxLeads
  /\ scrollCount > StallLimit
  /\ scrollCount < maxScrolls

\* C22: the scrolls the loop has performed never exceed maxScrolls, and
\* scrollCount counts them: it is the number of scrolls that returned, plus
\* the one being attempted or the one that raised
C22_ScrollCeiling ==
  pc \in {"filtering", "loop", "scan", "process", "scroll", "final", "returned", "thrown"} =>
    /\ scrollsDone <= maxScrolls
    /\ scrollCount <= maxScrolls
    /\ pc \in {"filtering", "loop", "scan", "process", "final", "returned"} =>
         scrollCount = scrollsDone
    /\ pc = "scroll" => scrollCount = scrollsDone + 1
    /\ pc = "thrown" => scrollCount \in {scrollsDone, scrollsDone + 1}

\* the loop was left at its head with maxScrolls scrolls performed, more than
\* one, and neither the stall limit nor the lead ceiling reached
C22_Witness ==
  /\ pc = "returned"
  /\ exitPath = "while"
  /\ scrollsDone = maxScrolls
  /\ maxScrolls > 1
  /\ noNewLeadsCount < StallLimit
  /\ Len(allLeads) < maxLeads

\* a scroll that returns goes to the final pass exactly when its new offset is
\* at least 0.99 times the maximum offset; the final pass is one pass, after
\* which the loop is over with no further scroll, unless the session was
\* closed, which ends the run
OnePassAfterEnd ==
  /\ (pc = "scroll" /\ pc' \in {"loop", "final"}) =>
       (pc' = "final" <=> scrollResult'[1] * 100 >= scrollResult'[2] * 99)
  /\ (pc = "final" /\ pc' # "final") =>
       \/ /\ pc' = "returned"
          /\ exitPath' = "end"
          /\ leadsArray' = Values(allLeads')
          /\ <<scrollsDone', scrollCount', noNewLeadsCount'>> =
               <<scrollsDone, scrollCount, noNewLeadsCount>>
       \/ pc' = "thrown" /\ error' = "session" /\ closed
  /\ (pc = "final" /\ ~closed /\ pc' = "final") => closed'

\* C23: when a scroll returns a new offset of at least 0.99 times the maximum
\* offset, exactly one more scan pass runs and the loop ends, whatever the
\* stall counter, the scroll counter, the number of Leads and the rows that
\* pass finds
C23_EndOfContent == [][OnePassAfterEnd]_vars

\* the loop ended after the final pass of a scroll that stopped at 0.99 of the
\* maximum, with the scroll ceiling met, and the final pass added a Lead after
\* a main pass that added none
C23_Witness ==
  /\ pc = "returned"
  /\ exitPath = "end"
  /\ scrollResult = <<99, 100>>
  /\ scrollCount = maxScrolls
  /\ noNewLeadsCount >= 1
  /\ Len(allLeads) > previousCount

\* a scroll is attempted only from the end of a main pass that did not reach
\* the cutoff, a scan only from the head of the loop, and the head of the loop
\* only from the filter setup or from a scroll; nothing leads back to the
\* filter setup
Alternates ==
  /\ (pc' = "scroll" /\ pc # "scroll") => (pc = "process" /\ ~reachedTargetDate)
  /\ scrollsDone' > scrollsDone =>
       /\ pc = "scroll"
       /\ pc' \in {"loop", "final"}
       /\ ~reachedTargetDate
       /\ scrollsDone' = scrollsDone + 1
  /\ (pc' = "scan" /\ pc # "scan") => pc = "loop"
  /\ (pc' = "process" /\ pc # "process") => pc = "scan"
  /\ (pc' = "loop" /\ pc # "loop") => pc \in {"filtering", "scroll"}
  /\ pc' = "filtering" => pc = "filtering"
  /\ (pc = "filtering" /\ pc' # "filtering") => (pc' \in {"loop", "thrown"} /\ scrollsDone = 0)
  /\ reachedTargetDate => pc' \notin {"scroll", "scan", "loop", "final"}

\* C24: a scroll happens only directly after a main pass that did not hit the
\* cutoff, never after a pass that hit it and never twice without a scan in
\* between; the filter setup happens once, before the first scan
C24_Alternation == [][Alternates]_vars

\* a run that scrolled, scanned again and stopped at the cutoff
C24_Witness ==
  /\ pc = "returned"
  /\ exitPath = "cutoff"
  /\ scrollsDone >= 2
  /\ reachedTargetDate

\* a[i..] can be read off b[j..] from left to right
RECURSIVE ReadOff(_, _, _, _)
ReadOff(a, i, b, j) ==
  IF i > Len(a) THEN TRUE
  ELSE IF j > Len(b) THEN FALSE
  ELSE IF a[i] = b[j] THEN ReadOff(a, i + 1, b, j + 1)
  ELSE ReadOff(a, i, b, j + 1)

\* the keys of the store, in its order
KeysOf(store) == [i \in 1..Len(store) |-> store[i].key]

\* the rows accepted in a pass are those of the scan in the order of the scan
AcceptedInScanOrder ==
  pc = "process" =>
    ReadOff([i \in 1..Len(leadsToProcess) |-> leadsToProcess[i].lead], 1, visibleLeads, 1)

\* the rows of a pass are merged one by one from the first on; the keys
\* already in the store keep their places and a new key goes to the end
MergedInOrder ==
  /\ (pc = "process" /\ pc' = "process" /\ allLeads' # allLeads) =>
       /\ idx' = idx + 1
       /\ Has(allLeads', leadsToProcess[idx].key)
       /\ \A j \in 1..(idx - 1) : Has(allLeads, leadsToProcess[j].key)
       /\ ~Has(allLeads, leadsToProcess[idx].key) =>
            KeysOf(allLeads') = Append(KeysOf(allLeads), leadsToProcess[idx].key)
  /\ pc' \in {"loop", "scan", "process", "scroll", "final", "returned"} =>
       /\ Len(allLeads') >= Len(allLeads)
       /\ SubSeq(KeysOf(allLeads'), 1, Len(allLeads)) = KeysOf(allLeads)
  /\ pc' = "returned" => leadsArray' = Values(allLeads')

\* C25: the accepted rows of a pass are enriched and merged strictly in the
\* order in which they were met, one after the other, and the returned
\* sequence lists the Leads in the order in which their keys were first merged
C25_Order == [][AcceptedInScanOrder' /\ MergedInOrder]_vars

\* two rows of one pass have been enriched and merged, in the order of the scan
C25_Witness ==
  /\ pc = "process"
  /\ extractDetails
  /\ Len(leadsToProcess) = 2
  /\ idx = 3
  /\ KeysOf(allLeads) = <<leadsToProcess[1].key, leadsToProcess[2].key>>
  /\ leadsToProcess[1].key # leadsToProcess[2].key

\* C26: at most one overlay, property modal or contact popover, is open at any
\* time of a run; the contact popover and the next property modal are opened
\* only once the previous overlay is gone, also when neither Escape nor the
\* click outside hid the modal
C26_SingleOverlay == ~(ui.modal /\ ui.popover # NULL)

\* extractPropertyDetails does not return after a click on the property link
\* without Escape having been pressed, and the click outside follows an Escape
\* that left the modal visible
DismissedBeforeReturn ==
  /\ (enrich.at \in {"property", "escape", "clickOutside"} /\ enrich'.at = "contact") =>
       (enrich.activated => enrich'.escaped)
  /\ (enrich.at = "escape" /\ enrich'.at = "clickOutside") =>
       (enrich'.escaped /\ ui'.modal)
  /\ (enrich.at = "escape" /\ enrich'.at = "contact" /\ ui'.modal) =>
       ui' = ui

\* C27: every activation of a property link is followed, before
\* extractPropertyDetails returns, by a dismissal attempt: Escape, then a click
\* outside if the surface is still visible, whether or not the surface
\* appeared and whether or not identifier and agent were read
C27_SurfaceDismissed == [][DismissedBeforeReturn]_vars

\* the link was clicked, no modal appeared, Escape was pressed all the same and
\* extractPropertyDetails has returned
C27_Witness ==
  /\ pc = "enrich"
  /\ enrich.at = "contact"
  /\ enrich.activated
  /\ enrich.outcome = "nomodal"
  /\ enrich.escaped

\* the lead extractPropertyDetails returns is the lead it was given when the
\* link was clicked and no modal appeared, and when the address is absent,
\* empty or a bare "+", in which case nothing on the page was touched
UnmodifiedWithoutSurface ==
  (enrich.at \in {"property", "escape", "clickOutside"} /\ enrich'.at = "contact") =>
    /\ (enrich'.activated /\ enrich'.outcome = "nomodal") =>
         enrich'.leadWithProperty = current
    /\ ~validAddress(current) =>
         (enrich'.leadWithProperty = current /\ ~enrich'.interacted /\ ui' = ui)

\* C28: when the property link is activated and the detail surface never
\* appears, extractPropertyDetails returns the Lead unmodified, no field added
\* or changed; so it does, without any interaction, when the address is
\* absent, empty or a bare "+"
C28_SurfaceAbsent == [][UnmodifiedWithoutSurface]_vars

\* extractContactDetails returns three nulls whenever the panel of the contact
\* did not appear (the element was not found, the click opened nothing, or a
\* call raised), and the lead is then merged with its parsed fields and the
\* loop moves to the next lead
NullsOnContactFailure ==
  /\ (enrich.at \in {"contact", "popoverEscape"} /\ enrich'.at = "merge"
        /\ ~enrich'.opened) => enrich'.contactInfo = NoContact
  /\ (enrich.at = "merge" /\ enrich'.at = "property") =>
       /\ idx' = idx + 1
       /\ Has(allLeads', leadsToProcess[idx].key)
       /\ LET merged == Get(allLeads', leadsToProcess[idx].key)
          IN /\ merged.name = current.contactName
             /\ merged.address = OrElse(current.propertyAddress, NULL)
             /\ merged.lastUpdated = OrElse(current.lastUpdated, NULL)
             /\ <<merged.email, merged.phone, merged.cellPhone>> =
                  <<enrich.contactInfo.email, enrich.contactInfo.phone,
                    enrich.contactInfo.cellPhone>>

\* C29: when the contact element is not found, the panel never appears or a
\* non-session error is raised while reading it, extractContactDetails returns
\* email, phone and mobile all null, the Lead is merged with its parsed fields
\* and the run goes on with the next Lead
C29_ContactFailure == [][NullsOnContactFailure]_vars

\* the branch filter is called once, first; the toggle only for the two
\* sections that need it; neither step ends the run unless the session is
\* closed, whatever its outcome
FilteredOnce ==
  /\ filters.branchCalls <= 1
  /\ filters.toggleCalls <= 1
  /\ pc \in {"toggle", "top", "loop"} => filters.branchCalls = 1
  /\ filters.toggle # "untouched" =>
       status \in {"para_reasignacion", "sin_seguimiento"}
  /\ (pc \in {"top", "loop"} /\ status \in {"para_reasignacion", "sin_seguimiento"}) =>
       filters.toggleCalls = 1
  /\ (pc = "thrown" /\ filters.branchCalls = 0) => error = "session"
  /\ (pc = "thrown" /\ filters.toggleCalls = 0
        /\ status \in {"para_reasignacion", "sin_seguimiento"}) => error = "session"

\* a step of the filter setup goes on to the next step, or ends the run for a
\* closed session
FilterStepGoesOn ==
  /\ (pc = "branches" /\ pc' # "branches") =>
       (pc' = "toggle" \/ (pc' = "thrown" /\ error' = "session" /\ closed))
  /\ (pc = "toggle" /\ pc' # "toggle") =>
       (pc' = "top" \/ (pc' = "thrown" /\ error' = "session" /\ closed))
  /\ (pc = "branches" /\ closed) => pc' \in {pc, "thrown"}
  /\ (pc = "toggle" /\ closed /\ status \in {"para_reasignacion", "sin_seguimiento"}) =>
       pc' \in {pc, "thrown"}
  /\ (pc = "top" /\ closed) => pc' \in {pc, "thrown"}

\* C30: the "all branches" filter is applied once per run before the first
\* scan; the reassignment toggle is touched only for para_reasignacion and
\* sin_seguimiento; a non-session failure of either step lets the loop start
\* and a closed session during either step aborts the run
C30_FilteringStep == [][FilteredOnce' /\ FilterStepGoesOn]_vars

\* the loop starts after the branch filter and the toggle both failed
C30_Witness ==
  /\ pc = "loop"
  /\ filters.branches = "failed"
  /\ filters.toggle = "failed"
  /\ status = "sin_seguimiento"

\* row i of the page lies under the header of the requested section, with no
\* other header in between
UnderTargetHeader(i) ==
  \E j \in 1..(i - 1) :
    /\ rendered[j].kind = "header"
    /\ rendered[j].label = STATUS_SECTION_HEADERS[status]
    /\ \A k \in (j + 1)..(i - 1) : rendered[k].kind # "header"

\* the lead was read from row i of the page
ReadFromRow(lead, i) ==
  /\ rendered[i].kind = "data"
  /\ Field(lead, "contactName") = rendered[i].name
  /\ Field(lead, "lastUpdated") = rendered[i].ts

\* a pass for a specific section yields only rows under the header of that
\* section, and a pass ends the run only by the cutoff
YieldsTargetRows ==
  /\ (pc = "process" /\ status \in DOMAIN STATUS_SECTION_HEADERS) =>
       \A n \in 1..Len(visibleLeads) :
         \E i \in 1..Len(rendered) :
           ReadFromRow(visibleLeads[n], i) /\ UnderTargetHeader(i)
  /\ (pc = "returned" /\ exitPath = "cutoff") => reachedTargetDate

\* C31: in a scan pass for a specific section the cursor starts outside the
\* target, enters it at the target header and a different header ends the
\* scanning of the pass; header rows and rows before the target header are
\* never yielded, and leaving the section does not end the run
C31_SectionCursor == YieldsTargetRows

\* after the rows of a pass were processed, a stored Lead whose key was seen in
\* the pass has no null address or timestamp where the row seen has a value
ObservedValuesKept ==
  (pc = "process" /\ idx > Len(leadsToProcess) /\ ~reachedTargetDate
     /\ Len(allLeads) < maxLeads) =>
    \A n \in 1..Len(visibleLeads) :
      LET seen == visibleLeads[n]
          key == getLeadKey(seen)
      IN Has(allLeads, key) =>
           /\ Get(allLeads, key).lastUpdated = NULL =>
                OrElse(Field(seen, "lastUpdated"), NULL) = NULL
           /\ Get(allLeads, key).address = NULL =>
                OrElse(Field(seen, "propertyAddress"), NULL) = NULL

\* C32: when a row whose key is already stored is seen again with a value for
\* a field that is null in the stored Lead, the stored Lead afterwards holds,
\* field by field, the non-null value of the two
C32_UpsertMerge == ObservedValuesKept

\* while scrapeLeadsUntilDate runs no step makes the store smaller or takes a
\* key out of it
KeysStay ==
  pc' \in {"filtering", "loop", "scan", "process", "scroll", "final", "returned",
           "thrown"} =>
    /\ Len(allLeads') >= Len(allLeads)
    /\ \A i \in 1..Len(allLeads) : Has(allLeads', allLeads[i].key)

\* the keys of the store are distinct and the returned sequence has one
\* element for each of them
OnePerKey ==
  /\ \A i, j \in 1..Len(allLeads) : allLeads[i].key = allLeads[j].key => i = j
  /\ pc = "returned" =>
       Len(leadsArray) = Cardinality({ allLeads[i].key : i \in 1..Len(allLeads) })

\* C33: the size of the store never decreases during a run, a key once present
\* stays present, and the returned sequence has as many elements as distinct
\* keys were merged
C33_StoreNeverShrinks == [][KeysStay /\ OnePerKey']_vars

\* a run returned two Leads of two keys after passes that added nothing more
C33_Witness ==
  /\ pc = "returned"
  /\ Len(leadsArray) = 2
  /\ Len(allLeads) = 2
  /\ noNewLeadsCount >= 2
  /\ scrollsDone >= 3


\* the result of each rule taken alone, NoDate when the rule does not match:
\* a relative duration with a positive total, "hace N horas/minutos", a
\* generically parseable absolute date, an explicit DD/MM/YYYY
RuleResults(a) ==
  << IF totalDays(a) > 0 THEN Now - totalDays(a) * 24 * 60 ELSE NoDate,
     IF a.hace /\ a.hours # <<>> THEN Now - a.hours[1] * 60
     ELSE IF a.hace /\ a.minutes # <<>> THEN Now - a.minutes[1]
     ELSE NoDate,
     GenericOf(a),
     IF a.date # EMPTY
     THEN Instant(DateDigits[a.date][3], DateDigits[a.date][2], DateDigits[a.date][1], 0, 0)
     ELSE NoDate >>

Matching(a) == { r \in 1..4 : RuleResults(a)[r] # NoDate }

FirstMatch(a) == CHOOSE r \in Matching(a) : \A q \in Matching(a) : r <= q

\* C34: parseDate tries the relative duration, then "hace N horas/minutos",
\* then the generically parseable date, then DD/MM/YYYY; the first rule that
\* matches gives the result, a string matching no rule gives null, and every
\* call returns an instant or null.
C34_RuleOrder ==
  (pc = "done" /\ fnArg.fn = "parseDate") =>
    /\ fnRet \in Int
    /\ IF Matching(fnArg.arg) = {} THEN fnRet = NoDate
       ELSE fnRet = RuleResults(fnArg.arg)[FirstMatch(fnArg.arg)]

\* "8 años 182 días" in front of a parseable date was resolved by the duration
C34_Witness ==
  /\ pc = "done"
  /\ fnArg.fn = "parseDate"
  /\ fnArg.arg.years = <<8>>
  /\ fnArg.arg.days = <<182>>
  /\ fnArg.arg.date = "01/01/2020 09:00"
  /\ fnRet = Now - (8 * 365 + 182) * 24 * 60


\* a key is added to the store only by the step of the main pass, which runs
\* extractPropertyDetails and then extractContactDetails in front of the write
EnrichedBeforeMerge ==
  (extractDetails /\ Len(allLeads') > Len(allLeads)) => pc = "process"

\* C35: when extractDetails is true, every Lead merged into the store was
\* passed through the property enrichment and then the contact enrichment
\* before the merge, Leads first seen in the end-of-scroll pass included.
C35_EnrichmentCoverage == [][EnrichedBeforeMerge]_vars


\* an operation of the enrichment that ends while the session is closed does
\* not hand its lead to the merge: the closed session is detected first
DetectedBeforeMerge ==
  (pc = "enrich" /\ closed /\ enrich.at # "merge") => enrich'.at # "merge"

\* C36: the location is checked after every network-affecting operation of
\* the run, the property-link activation and the contact click included, so
\* that a session invalidated during an operation is detected before any Lead
\* is merged into the store after that operation.
C36_SessionDetection == [][DetectedBeforeMerge]_vars


\* the result is a success whose count is the length of its leads, or a
\* failure with an error message
OneOfTwo(res) ==
  \/ /\ res.success = TRUE
     /\ DOMAIN res = {"success", "leads", "totalLeads"}
     /\ res.totalLeads = Len(res.leads)
  \/ /\ res.success = FALSE
     /\ DOMAIN res = {"success", "leads", "error"}
     /\ res.error \in {SessionClosedMessage, GenericMessage}

\* the result is built once, by the return of the try or by the catch
BuiltOnce ==
  /\ result' # result => (pc \in {"returned", "thrown"} /\ pc' = "finally")
  /\ (pc # "finally" /\ pc' = "finally") =>
       /\ OneOfTwo(result')
       /\ pc = "returned" => (result'.success = TRUE /\ result'.leads = leadsArray)
       /\ pc = "thrown" => (result'.success = FALSE /\ result'.leads = <<>>)
  /\ pc' = "result" => result' = result

ClosedBeforeReturn == pc = "result" => browser \in {NULL, "closed"}

\* the run does nothing once its browser is closed
NothingAfterClose == browser = "closed" => pc = "result"

\* C38: on every exit path of scrapeLeads after the browser was launched, the
\* browser is closed before the result is returned, and no browser operation
\* of the run occurs after the close.
C38_BrowserRelease == ClosedBeforeReturn /\ NothingAfterClose

====
